---- MODULE Spec2Model ----
(***************************************************************************)
(* Model of the Xilinx AXI DMA scatter-gather driver                       *)
(* (drivers/dma/dma_xilinx_axi_dma.c): the two descriptor rings, the       *)
(* per-channel registers, the submission path, the interrupt handlers and  *)
(* the completion sweep, together with the DMA engine they talk to.        *)
(*                                                                         *)
(* Software runs on one core: the API calls are atomic with respect to the *)
(* interrupt handlers (they run under the driver's interrupt lock and the  *)
(* handler never runs while a call is between lock and unlock), while an   *)
(* interrupt handler is split at every point where it reads memory that    *)
(* the engine writes.  The engine is trusted to complete, in ring order,   *)
(* the descriptors the tail pointer has been pushed past.  The build       *)
(* modelled is the one with coherent descriptor memory (the cache          *)
(* operations are no-ops) and a 64-bit size_t.                             *)
(***************************************************************************)
EXTENDS Integers, Naturals, Sequences, FiniteSets, TLC

(***************************************************************************)
(* Bounds of the model.                                                    *)
(***************************************************************************)
\* CONFIG_DMA_XILINX_AXI_DMA_SG_DESCRIPTOR_NUM_TX: capacity of the send ring
SG_DESCRIPTOR_NUM_TX == 2
\* CONFIG_DMA_XILINX_AXI_DMA_SG_DESCRIPTOR_NUM_RX: capacity of the receive ring
SG_DESCRIPTOR_NUM_RX == 3
\* successful submissions per channel in one behaviour
MaxSubmits == 4

(***************************************************************************)
(* Program constants.                                                      *)
(***************************************************************************)
XILINX_AXI_DMA_TX_CHANNEL_NUM == 0
XILINX_AXI_DMA_RX_CHANNEL_NUM == 1
XILINX_AXI_DMA_NUM_CHANNELS == 2

MEMORY_TO_MEMORY == 0
MEMORY_TO_PERIPHERAL == 1
PERIPHERAL_TO_MEMORY == 2

DMA_ADDR_ADJ_INCREMENT == 0
DMA_ADDR_ADJ_DECREMENT == 1
DMA_ADDR_ADJ_NO_CHANGE == 2

XILINX_AXI_DMA_LINKED_CHANNEL_NO_CSUM_OFFLOAD == 0
XILINX_AXI_DMA_LINKED_CHANNEL_FULL_CSUM_OFFLOAD == 1

DMA_STATUS_COMPLETE == 0
EIO == 5
EFAULT == 14
EBUSY == 16
EINVAL == 22
ENOTSUP == 134

(***************************************************************************)
(* 32-bit and wider words.  A word is kept as its bits 25..0 (lo) and its  *)
(* bits from 26 up (hi): value = hi * 2^26 + lo.  The control and status   *)
(* words of a descriptor keep their length in lo and their flags in hi.    *)
(***************************************************************************)
WORD_LO_MOD == 67108864
WORD_HI_MOD == 64

Word(h, l) == [hi |-> h, lo |-> l]

RECURSIVE BitAnd(_, _)
BitAnd(a, b) ==
  IF a = 0 \/ b = 0 THEN 0
  ELSE (a % 2) * (b % 2) + 2 * BitAnd(a \div 2, b \div 2)

BitOr(a, b) == a + b - BitAnd(a, b)

BitClear(a, mask) == a - BitAnd(a, mask)

WordAnd(a, b) == Word(BitAnd(a.hi, b.hi), BitAnd(a.lo, b.lo))
WordOr(a, b) == Word(BitOr(a.hi, b.hi), BitOr(a.lo, b.lo))
WordClear(a, mask) == Word(BitClear(a.hi, mask.hi), BitClear(a.lo, mask.lo))
WordGt(a, b) == a.hi > b.hi \/ (a.hi = b.hi /\ a.lo > b.lo)
WordZero == Word(0, 0)

\* (uint32_t)x
ToUint32(x) == Word(x.hi % WORD_HI_MOD, x.lo)

UINT32_MAX == Word(WORD_HI_MOD - 1, WORD_LO_MOD - 1)

CTRL_SOF_MASK == Word(2, 0)
CTRL_EOF_MASK == Word(1, 0)
CTRL_LENGTH_MASK == Word(0, WORD_LO_MOD - 1)
STATUS_LENGTH_MASK == Word(0, WORD_LO_MOD - 1)
STATUS_COMPLETE_MASK == Word(32, 0)
STATUS_DEC_ERR_MASK == Word(16, 0)
STATUS_SLV_ERR_MASK == Word(8, 0)
STATUS_INT_ERR_MASK == Word(4, 0)
STATUS_TRANSFERRED_MASK == Word(0, WORD_LO_MOD - 1)

APP0_CHECKSUM_OFFLOAD_FULL == 2
APP0_CHECKSUM_OFFLOAD_NONE == 0
APP2_FCS_ERR_MASK == 256
APP2_IP_ERR_MASK == 40
APP2_UDP_ERR_MASK == 48
APP2_TCP_ERR_MASK == 56

DMACR_IRQTHRESH_SHIFT_BITS == 16
DMACR_IRQDELAY_SHIFT_BITS == 24
DMACR_ERR_IRQEN == 16384
DMACR_DLY_IRQEN == 8192
DMACR_IOC_IRQEN == 4096
DMACR_CYC_BD_EN == 16
DMACR_KEYHOLE == 8
DMACR_RESET == 4
DMACR_RS == 1
DMACR_ALL_IRQEN == DMACR_ERR_IRQEN + DMACR_DLY_IRQEN + DMACR_IOC_IRQEN

DMASR_ERR_IRQ == 16384
DMASR_DLY_IRQ == 8192
DMASR_IOC_IRQ == 4096
DMASR_IDLE == 2
DMASR_HALTED == 1

\* CONFIG_DMA_XILINX_AXI_DMA_INTERRUPT_THRESHOLD / _TIMEOUT
INTERRUPT_THRESHOLD == 2
INTERRUPT_TIMEOUT == 16

\* number of DMACR reads of the soft-reset poll
RESET_POLL_LIMIT == 1000

\* size and alignment of one descriptor, address of descriptors_tx[0]
SG_DESCRIPTOR_SIZE == 64
DESCRIPTORS_TX_ADDR == 4096

\* completion callback: the null pointer and the caller's function
NULL == 0
CALLBACK == 1

\* buffers the caller hands in
SRC_BUFFER == 65536
DST_BUFFER == 131072

Channels == {XILINX_AXI_DMA_TX_CHANNEL_NUM, XILINX_AXI_DMA_RX_CHANNEL_NUM}

\* ARRAY_SIZE(data->descriptors_tx), ARRAY_SIZE(data->descriptors_rx)
num_descriptors(ch) ==
  IF ch = XILINX_AXI_DMA_TX_CHANNEL_NUM THEN SG_DESCRIPTOR_NUM_TX
  ELSE SG_DESCRIPTOR_NUM_RX

Slots(ch) == 0 .. (num_descriptors(ch) - 1)

\* &data->channels[ch].descriptors[i]; descriptors_rx follows descriptors_tx
DescAddr(ch, i) ==
  IF ch = XILINX_AXI_DMA_TX_CHANNEL_NUM
  THEN DESCRIPTORS_TX_ADDR + SG_DESCRIPTOR_SIZE * i
  ELSE DESCRIPTORS_TX_ADDR + SG_DESCRIPTOR_SIZE * (SG_DESCRIPTOR_NUM_TX + i)

\* the slot of channel ch a descriptor address names, -1 when it names none
DescIndex(ch, addr) ==
  IF \E i \in Slots(ch) : DescAddr(ch, i) = addr
  THEN CHOOSE i \in Slots(ch) : DescAddr(ch, i) = addr
  ELSE -1

\* a descriptor of the zero-initialized segment
ZeroDescriptor ==
  [nxtdesc |-> 0, buffer_address |-> 0, control |-> WordZero, status |-> WordZero,
   app0 |-> 0, app2 |-> 0]

VARIABLES
  lock_mode,              \* interrupt exclusion granularity of the build
  active,                 \* channels the caller drives in this behaviour
  init_pc,                \* dma_xilinx_axi_dma_init: "boot", "poll", "ready", "failed"
  init_i,                 \* its loop counter i
  direction,              \* channel_data->direction
  populated_desc_index,   \* channel_data->populated_desc_index
  completion_desc_index,  \* channel_data->completion_desc_index
  completion_callback,    \* channel_data->completion_callback
  last_rx_size,           \* channel_data->last_rx_size
  sg_desc_app0,           \* channel_data->sg_desc_app0
  check_csum_in_isr,      \* channel_data->check_csum_in_isr
  descriptors,            \* channel_data->descriptors[]
  dmacr, dmasr,           \* XILINX_AXI_DMA_REG_DMACR, _DMASR
  curdesc, taildesc,      \* XILINX_AXI_DMA_REG_CURDESC, _TAILDESC
  irq_connected,          \* IRQ_CONNECT done for the channel's line
  irq_enabled,            \* irq_is_enabled(channel_data->irq)
  isr_pc,                 \* interrupt handler position: "idle", "sweep"
  isr_irq_enabled,        \* its local irq_enabled
  isr_status,             \* the sweep's local current_status
  processed_packets,      \* the sweep's local processed_packets
  hw_coalesce,            \* engine: completions not yet signalled
  owner,                  \* history: who owns each slot
  slot_id,                \* history: serial number of the submission in each slot
  nsub,                   \* history: successful submissions per channel
  configured,             \* history: configure has rebuilt the ring
  ring,                   \* history: the full-ring scenario's position
  cb_log,                 \* history: completion callback invocations
  cb_status,              \* history: the status argument of the last invocation
  last,                   \* history: the last API call and its result
  thread,                 \* the submit or start call the thread is inside of
  irq_locked              \* the CPU's interrupts are locked (irq_lock)

chanVars ==
  <<direction, populated_desc_index, completion_desc_index, completion_callback,
    last_rx_size, sg_desc_app0, check_csum_in_isr>>
regVars == <<dmacr, dmasr, curdesc, taildesc>>
irqVars == <<irq_connected, irq_enabled>>
isrVars == <<isr_pc, isr_irq_enabled, isr_status, processed_packets>>
histVars == <<owner, slot_id, nsub, configured, ring, cb_log, cb_status>>
lockVars == <<thread, irq_locked>>
vars ==
  <<lock_mode, active, init_pc, init_i, chanVars, descriptors, regVars, irqVars,
    isrVars, hw_coalesce, histVars, last, lockVars>>

LockModes == {"LOCK_ALL_IRQS", "LOCK_DMA_IRQS", "LOCK_CHANNEL_IRQ"}

\* what an API call returned: its return value and, for get_status, *stat
Call(o, ch, r, b, d) == [op |-> o, channel |-> ch, ret |-> r, busy |-> b, dir |-> d]

NoCall == Call("none", 0, 0, FALSE, 0)

\* the thread's position inside a call: the function, its program point, its
\* channel, its irq_key and its block_size
InCall(f, p, ch, k, size) == [fn |-> f, pc |-> p, channel |-> ch, key |-> k, size |-> size]

\* the thread is outside of submit and start
NotInCall == InCall("none", "idle", 0, 0, Word(0, 0))

(***************************************************************************)
(* The state before dma_xilinx_axi_dma_init runs: the channel array and    *)
(* the descriptor arrays are zero-initialized static storage, the engine   *)
(* is halted, no interrupt line is connected.                              *)
(***************************************************************************)
InitState(modes, actives) ==
  /\ lock_mode \in modes
  /\ active \in actives
  /\ init_pc = "boot"
  /\ init_i = 0
  /\ direction = [ch \in Channels |-> MEMORY_TO_MEMORY]
  /\ populated_desc_index = [ch \in Channels |-> 0]
  /\ completion_desc_index = [ch \in Channels |-> 0]
  /\ completion_callback = [ch \in Channels |-> NULL]
  /\ last_rx_size = [ch \in Channels |-> WordZero]
  /\ sg_desc_app0 = [ch \in Channels |-> 0]
  /\ check_csum_in_isr = [ch \in Channels |-> FALSE]
  /\ descriptors = [ch \in Channels |-> [i \in Slots(ch) |-> ZeroDescriptor]]
  /\ dmacr = [ch \in Channels |-> 0]
  /\ dmasr = [ch \in Channels |-> DMASR_HALTED]
  /\ curdesc = [ch \in Channels |-> 0]
  /\ taildesc = [ch \in Channels |-> 0]
  /\ irq_connected = [ch \in Channels |-> FALSE]
  /\ irq_enabled = [ch \in Channels |-> FALSE]
  /\ isr_pc = [ch \in Channels |-> "idle"]
  /\ isr_irq_enabled = [ch \in Channels |-> FALSE]
  /\ isr_status = [ch \in Channels |-> WordZero]
  /\ processed_packets = [ch \in Channels |-> 0]
  /\ hw_coalesce = [ch \in Channels |-> 0]
  /\ owner = [ch \in Channels |-> [i \in Slots(ch) |-> "free"]]
  /\ slot_id = [ch \in Channels |-> [i \in Slots(ch) |-> 0]]
  /\ nsub = [ch \in Channels |-> 0]
  /\ configured = [ch \in Channels |-> FALSE]
  /\ ring = [ch \in Channels |-> "none"]
  /\ cb_log = << >>
  /\ cb_status = 0
  /\ last = NoCall
  /\ thread = NotInCall
  /\ irq_locked = FALSE

Init ==
  InitState({"LOCK_CHANNEL_IRQ"},
            {{XILINX_AXI_DMA_TX_CHANNEL_NUM}, {XILINX_AXI_DMA_RX_CHANNEL_NUM}})

(***************************************************************************)
(* dma_xilinx_axi_dma_init                                                 *)
(***************************************************************************)
\* the direction fields as init leaves them
InitDirections(dir) ==
  LET d1 == [dir EXCEPT ![XILINX_AXI_DMA_TX_CHANNEL_NUM] = MEMORY_TO_PERIPHERAL]
  IN  [d1 EXCEPT ![XILINX_AXI_DMA_TX_CHANNEL_NUM] = PERIPHERAL_TO_MEMORY]

\* channel setup and the write of the reset bit to the receive channel's DMACR
InitBegin ==
  /\ init_pc = "boot"
  /\ direction' = InitDirections(direction)
  /\ dmacr' = [dmacr EXCEPT ![XILINX_AXI_DMA_RX_CHANNEL_NUM] = DMACR_RESET]
  /\ init_pc' = "poll"
  /\ init_i' = 0
  /\ UNCHANGED <<lockVars, lock_mode, active, populated_desc_index, completion_desc_index,
                 completion_callback, last_rx_size, sg_desc_app0, check_csum_in_isr,
                 descriptors, dmasr, curdesc, taildesc, irqVars, isrVars,
                 hw_coalesce, histVars, last>>

\* cfg->irq_configure(data): both lines connected and enabled
irq_configure(en) == [ch \in Channels |-> TRUE]

\* an init that configures the lines whether or not the reset was seen done
IrqAfterInitUnconditional(reset, en) == irq_configure(en)

\* the lines after init: irq_configure runs only when the reset was seen done
IrqAfterInit(reset, en) == IF reset THEN irq_configure(en) ELSE en

\* one iteration of the poll loop, and what follows the loop when it ends
InitPoll ==
  /\ init_pc = "poll"
  /\ IF init_i < RESET_POLL_LIMIT
        /\ BitAnd(dmacr[XILINX_AXI_DMA_RX_CHANNEL_NUM], DMACR_RESET) # 0
     THEN \* k_msleep(1) and the next iteration
          /\ init_i' = init_i + 1
          /\ UNCHANGED <<init_pc, irqVars, last>>
     ELSE \* the loop ends: by break with reset = true, or with reset = false
          LET reset == init_i < RESET_POLL_LIMIT
          IN  /\ init_i' = 0
              /\ init_pc' = IF reset THEN "ready" ELSE "failed"
              /\ irq_connected' = IrqAfterInit(reset, irq_connected)
              /\ irq_enabled' = IrqAfterInit(reset, irq_enabled)
              /\ last' = Call("init", 0, IF reset THEN 0 ELSE -EIO, FALSE, 0)
  /\ UNCHANGED <<lockVars, lock_mode, active, chanVars, descriptors, regVars, isrVars,
                 hw_coalesce, histVars>>

\* the engine finishes the soft reset: both channels are reset and halted
HwResetDone ==
  /\ BitAnd(dmacr[XILINX_AXI_DMA_RX_CHANNEL_NUM], DMACR_RESET) # 0
  /\ dmacr' = [ch \in Channels |-> 0]
  /\ dmasr' = [ch \in Channels |-> DMASR_HALTED]
  /\ UNCHANGED <<lockVars, lock_mode, active, init_pc, init_i, chanVars, descriptors,
                 curdesc, taildesc, irqVars, isrVars, hw_coalesce, histVars>>
  /\ last' = NoCall

(***************************************************************************)
(* Interrupt exclusion.                                                    *)
(***************************************************************************)
\* dma_xilinx_axi_dma_lock_irq: the key and the lines' enable state after it
\* a lock that, per channel, disables the line of the other channel
LockIrqOtherChannel(mode, irq, channel_num) ==
  IF mode = "LOCK_ALL_IRQS"
  THEN [key |-> 0, irq |-> irq]
  ELSE IF mode = "LOCK_DMA_IRQS"
  THEN [key |-> (IF irq[0] THEN 1 ELSE 0) + 2 * (IF irq[1] THEN 1 ELSE 0),
        irq |-> [ch \in Channels |-> FALSE]]
  ELSE [key |-> IF irq[channel_num] THEN 1 ELSE 0,
        irq |-> [irq EXCEPT ![1 - channel_num] = FALSE]]

dma_xilinx_axi_dma_lock_irq(mode, irq, channel_num) ==
  IF mode = "LOCK_ALL_IRQS"
  THEN [key |-> 0, irq |-> irq]
  ELSE IF mode = "LOCK_DMA_IRQS"
  THEN [key |-> (IF irq[0] THEN 1 ELSE 0) + 2 * (IF irq[1] THEN 1 ELSE 0),
        irq |-> [ch \in Channels |-> FALSE]]
  ELSE [key |-> IF irq[channel_num] THEN 1 ELSE 0,
        irq |-> [irq EXCEPT ![channel_num] = FALSE]]

\* an unlock that enables the lines whatever the key says
UnlockIrqIgnoresKey(mode, irq, channel_num, key) ==
  IF mode = "LOCK_ALL_IRQS"
  THEN irq
  ELSE IF mode = "LOCK_DMA_IRQS"
  THEN [ch \in Channels |-> TRUE]
  ELSE [irq EXCEPT ![channel_num] = TRUE]

\* dma_xilinx_axi_dma_unlock_irq: the lines' enable state after it
dma_xilinx_axi_dma_unlock_irq(mode, irq, channel_num, key) ==
  IF mode = "LOCK_ALL_IRQS"
  THEN irq
  ELSE IF mode = "LOCK_DMA_IRQS"
  THEN [ch \in Channels |->
          IF ch = 0 /\ BitAnd(key, 1) # 0 THEN TRUE
          ELSE IF ch = 1 /\ BitAnd(key, 2) # 0 THEN TRUE
          ELSE irq[ch]]
  ELSE IF key # 0 THEN [irq EXCEPT ![channel_num] = TRUE] ELSE irq

(***************************************************************************)
(* Submission: dma_xilinx_axi_dma_transfer_block.  st is the part of the   *)
(* state the function works on: the channel's descriptors (desc), its      *)
(* populated_desc_index (pop), the interrupt lines (irq), and the history  *)
(* of the slots (own, sid, n).                                             *)
(***************************************************************************)
SubmitState(ch) ==
  [desc |-> descriptors[ch], pop |-> populated_desc_index[ch], irq |-> irq_enabled,
   own |-> owner[ch], sid |-> slot_id[ch], n |-> nsub[ch]]

\* next_desc_index
NextDescIndex(ch, pop) ==
  IF pop + 1 >= num_descriptors(ch) THEN 0 ELSE pop + 1

\* the test of the block size against the largest one accepted
BlockTooLarge(block_size) == WordGt(block_size, UINT32_MAX)

\* the control word written for a block
BlockControl(block_size, is_first, is_last) ==
  LET c0 == ToUint32(block_size)
      c1 == IF is_first THEN WordOr(c0, CTRL_SOF_MASK) ELSE c0
  IN  IF is_last THEN WordOr(c1, CTRL_EOF_MASK) ELSE c1

\* a busy test that looks at the control word alone
DescriptorInUseControlOnly(d) == d.control # WordZero

\* current_descriptor->control || current_descriptor->status
DescriptorInUse(d) == d.control # WordZero \/ d.status # WordZero

dma_xilinx_axi_dma_transfer_block(mode, ch, st, app0, buffer_addr, block_size, is_first, is_last) ==
  LET lk == dma_xilinx_axi_dma_lock_irq(mode, st.irq, ch)
      next_desc_index == NextDescIndex(ch, st.pop)
      unlocked == dma_xilinx_axi_dma_unlock_irq(mode, lk.irq, ch, lk.key)
      d0 == st.desc[next_desc_index]
      d1 == [d0 EXCEPT !.buffer_address = buffer_addr, !.app0 = app0]
      d2 == [d1 EXCEPT !.control = BlockControl(block_size, is_first, is_last)]
  IN  IF DescriptorInUse(d0)
      THEN [ret |-> -EBUSY, st |-> [st EXCEPT !.irq = unlocked]]
      ELSE IF BlockTooLarge(block_size)
      THEN [ret |-> -EINVAL,
            st |-> [st EXCEPT !.desc[next_desc_index] = d1, !.irq = unlocked]]
      ELSE [ret |-> 0,
            st |-> [st EXCEPT !.desc[next_desc_index] = d2,
                              !.pop = next_desc_index,
                              !.irq = unlocked,
                              !.own[next_desc_index] = "sw",
                              !.sid[next_desc_index] = st.n + 1,
                              !.n = st.n + 1]]

\* an API call may run: the device is up and no interrupt handler is running
ApiReady(ch) ==
  /\ init_pc = "ready"
  /\ ch \in active
  /\ \A c \in Channels : isr_pc[c] = "idle"
  /\ thread = NotInCall

\* sizes a caller passes to reload: 100 and 2^32
ReloadSizes == {Word(0, 100), Word(WORD_HI_MOD, 0)}

\* sizes around the capacity of the length field: 2^26 - 1, 2^26 and 2^32
LengthSizes == {Word(0, WORD_LO_MOD - 1), Word(1, 0), Word(WORD_HI_MOD, 0)}

\* dma_xilinx_axi_dma_config_reload(dev, ch, src, dst, size)
Reload(ch, src, dst, size) ==
  /\ ApiReady(ch)
  /\ configured[ch]
  /\ nsub[ch] < MaxSubmits
  /\ LET r == dma_xilinx_axi_dma_transfer_block(
                lock_mode, ch, SubmitState(ch), sg_desc_app0[ch],
                IF ch = XILINX_AXI_DMA_TX_CHANNEL_NUM THEN src ELSE dst,
                size, TRUE, TRUE)
     IN  /\ descriptors' = [descriptors EXCEPT ![ch] = r.st.desc]
         /\ populated_desc_index' = [populated_desc_index EXCEPT ![ch] = r.st.pop]
         /\ irq_enabled' = r.st.irq
         /\ owner' = [owner EXCEPT ![ch] = r.st.own]
         /\ slot_id' = [slot_id EXCEPT ![ch] = r.st.sid]
         /\ nsub' = [nsub EXCEPT ![ch] = r.st.n]
         /\ ring' = [ring EXCEPT
                       ![ch] = IF @ = "reclaimed" /\ r.ret = 0 THEN "refilled" ELSE @]
         /\ last' = Call("reload", ch, r.ret, FALSE, 0)
  /\ UNCHANGED <<lockVars, lock_mode, active, init_pc, init_i, direction, completion_desc_index,
                 completion_callback, last_rx_size, sg_desc_app0, check_csum_in_isr,
                 regVars, irq_connected, isrVars, hw_coalesce, configured, cb_log, cb_status>>

(***************************************************************************)
(* dma_xilinx_axi_dma_configure                                            *)
(***************************************************************************)
Block(size, src_adj, dst_adj) ==
  [source_address |-> SRC_BUFFER, dest_address |-> DST_BUFFER, block_size |-> size,
   source_addr_adj |-> src_adj, dest_addr_adj |-> dst_adj]

PlainBlock(n) == Block(Word(0, n), DMA_ADDR_ADJ_INCREMENT, DMA_ADDR_ADJ_NO_CHANGE)

\* block chains a caller passes to configure
Chains ==
  { <<PlainBlock(100)>>,
    <<PlainBlock(100), PlainBlock(200)>>,
    <<PlainBlock(100), PlainBlock(0), PlainBlock(200)>>,
    <<Block(Word(0, 100), DMA_ADDR_ADJ_DECREMENT, DMA_ADDR_ADJ_INCREMENT)>>,
    <<Block(Word(0, 100), DMA_ADDR_ADJ_INCREMENT, DMA_ADDR_ADJ_DECREMENT)>> }

\* struct dma_config as far as the driver reads it
DmaConfig(chain, dir, linked, cb) ==
  [head_block |-> chain, channel_direction |-> dir, linked_channel |-> linked,
   dma_callback |-> cb]

\* the direction a caller has to name for a channel
ChannelDirection(ch) ==
  IF ch = XILINX_AXI_DMA_TX_CHANNEL_NUM THEN MEMORY_TO_PERIPHERAL
  ELSE PERIPHERAL_TO_MEMORY

\* configurations a caller passes for channel ch: every chain with a callback
\* and no checksum offload, and one-block chains with checksum offload, with
\* no callback, with an invalid offload selector and with the wrong direction
DmaConfigs(ch) ==
  { DmaConfig(c, ChannelDirection(ch),
              XILINX_AXI_DMA_LINKED_CHANNEL_NO_CSUM_OFFLOAD, CALLBACK) : c \in Chains }
  \cup
  { DmaConfig(<<PlainBlock(100)>>, ChannelDirection(ch),
              XILINX_AXI_DMA_LINKED_CHANNEL_FULL_CSUM_OFFLOAD, CALLBACK),
    DmaConfig(<<PlainBlock(100)>>, ChannelDirection(ch),
              XILINX_AXI_DMA_LINKED_CHANNEL_NO_CSUM_OFFLOAD, NULL),
    DmaConfig(<<PlainBlock(100)>>, ChannelDirection(ch), 2, CALLBACK),
    DmaConfig(<<PlainBlock(100)>>, ChannelDirection(1 - ch),
              XILINX_AXI_DMA_LINKED_CHANNEL_NO_CSUM_OFFLOAD, CALLBACK) }

\* the checks of the head block's address adjustment
AddrAdjSupported(head) ==
  /\ head.source_addr_adj # DMA_ADDR_ADJ_DECREMENT
  /\ head.dest_addr_adj # DMA_ADDR_ADJ_DECREMENT
  /\ head.source_addr_adj \in {DMA_ADDR_ADJ_INCREMENT, DMA_ADDR_ADJ_NO_CHANGE}
  /\ head.dest_addr_adj \in {DMA_ADDR_ADJ_INCREMENT, DMA_ADDR_ADJ_NO_CHANGE}

\* the checks of the transfer direction against the channel
DirectionSupported(ch, dir) ==
  /\ ch = XILINX_AXI_DMA_TX_CHANNEL_NUM => dir = MEMORY_TO_PERIPHERAL
  /\ ch = XILINX_AXI_DMA_RX_CHANNEL_NUM => dir = PERIPHERAL_TO_MEMORY

\* the loop that links the descriptors into a ring
RebuildRing(ch, desc) ==
  [i \in Slots(ch) |->
     [desc[i] EXCEPT !.nxtdesc =
        IF i + 1 < num_descriptors(ch) THEN DescAddr(ch, i + 1) ELSE DescAddr(ch, 0)]]

\* a write of XILINX_AXI_DMA_REG_CURDESC: the engine takes it only while halted
WriteCurdesc(ch, val) ==
  IF BitAnd(dmasr[ch], DMASR_HALTED) # 0 THEN val ELSE curdesc[ch]

LinkedChannelValid(linked_channel) ==
  linked_channel \in {XILINX_AXI_DMA_LINKED_CHANNEL_FULL_CSUM_OFFLOAD,
                      XILINX_AXI_DMA_LINKED_CHANNEL_NO_CSUM_OFFLOAD}

\* sg_desc_app0 after the switch on linked_channel
ConfiguredApp0(ch, linked_channel) ==
  IF linked_channel = XILINX_AXI_DMA_LINKED_CHANNEL_FULL_CSUM_OFFLOAD
  THEN IF ch = XILINX_AXI_DMA_TX_CHANNEL_NUM
       THEN APP0_CHECKSUM_OFFLOAD_FULL ELSE sg_desc_app0[ch]
  ELSE IF linked_channel = XILINX_AXI_DMA_LINKED_CHANNEL_NO_CSUM_OFFLOAD
  THEN APP0_CHECKSUM_OFFLOAD_NONE
  ELSE sg_desc_app0[ch]

\* check_csum_in_isr after the switch on linked_channel
ConfiguredCheckCsum(ch, linked_channel) ==
  /\ linked_channel = XILINX_AXI_DMA_LINKED_CHANNEL_FULL_CSUM_OFFLOAD
  /\ ch # XILINX_AXI_DMA_TX_CHANNEL_NUM

\* the do-while loop over the block chain, from block k on; ret is 0 on entry
RECURSIVE ConfigureBlocks(_, _, _, _, _, _)
ConfigureBlocks(mode, ch, st, app0, chain, k) ==
  LET current_block == chain[k]
      tb == dma_xilinx_axi_dma_transfer_block(
              mode, ch, st, app0,
              IF ch = XILINX_AXI_DMA_TX_CHANNEL_NUM
              THEN current_block.source_address ELSE current_block.dest_address,
              current_block.block_size, k = 1, k = Len(chain))
      ret == IF tb.ret # 0 THEN 1 ELSE 0
  IN  IF k < Len(chain) /\ ret = 0
      THEN ConfigureBlocks(mode, ch, tb.st, app0, chain, k + 1)
      ELSE [ret |-> ret, st |-> tb.st]

\* every slot of the ring has control = 0 and status = 0
RingDrained(ch) == \A i \in Slots(ch) : ~DescriptorInUse(descriptors[ch][i])

dma_xilinx_axi_dma_configure(ch, dma_cfg) ==
  /\ ApiReady(ch)
  /\ nsub[ch] + Len(dma_cfg.head_block) <= MaxSubmits
  /\ IF ~AddrAdjSupported(dma_cfg.head_block[1])
        \/ ~DirectionSupported(ch, dma_cfg.channel_direction)
     THEN /\ last' = Call("configure", ch, -ENOTSUP, FALSE, 0)
          /\ UNCHANGED <<chanVars, descriptors, regVars, irqVars, histVars>>
     ELSE LET rebuilt == RebuildRing(ch, descriptors[ch])
              st0 == [SubmitState(ch) EXCEPT !.desc = rebuilt,
                                             !.pop = num_descriptors(ch) - 1]
              app0 == ConfiguredApp0(ch, dma_cfg.linked_channel)
              r == IF LinkedChannelValid(dma_cfg.linked_channel)
                   THEN ConfigureBlocks(lock_mode, ch, st0, app0, dma_cfg.head_block, 1)
                   ELSE [ret |-> -EINVAL, st |-> st0]
          IN  /\ populated_desc_index' = [populated_desc_index EXCEPT ![ch] = r.st.pop]
              /\ completion_desc_index' = [completion_desc_index EXCEPT ![ch] = 0]
              /\ descriptors' = [descriptors EXCEPT ![ch] = r.st.desc]
              /\ curdesc' = [curdesc EXCEPT ![ch] = WriteCurdesc(ch, DescAddr(ch, 0))]
              /\ check_csum_in_isr' =
                   [check_csum_in_isr EXCEPT
                      ![ch] = ConfiguredCheckCsum(ch, dma_cfg.linked_channel)]
              /\ sg_desc_app0' = [sg_desc_app0 EXCEPT ![ch] = app0]
              /\ completion_callback' =
                   [completion_callback EXCEPT
                      ![ch] = IF LinkedChannelValid(dma_cfg.linked_channel)
                              THEN dma_cfg.dma_callback ELSE @]
              /\ irq_enabled' = r.st.irq
              /\ owner' = [owner EXCEPT ![ch] = r.st.own]
              /\ slot_id' = [slot_id EXCEPT ![ch] = r.st.sid]
              /\ nsub' = [nsub EXCEPT ![ch] = r.st.n]
              /\ configured' = [configured EXCEPT ![ch] = TRUE]
              /\ ring' = [ring EXCEPT
                            ![ch] = IF RingDrained(ch) THEN "fresh" ELSE "none"]
              /\ last' = Call("configure", ch, r.ret, FALSE, 0)
              /\ UNCHANGED <<direction, last_rx_size, dmacr, dmasr, taildesc,
                             irq_connected, cb_log, cb_status>>
  /\ UNCHANGED <<lockVars, lock_mode, active, init_pc, init_i, isrVars, hw_coalesce>>

(***************************************************************************)
(* dma_xilinx_axi_dma_start, _stop, _get_status                            *)
(***************************************************************************)
\* new_control, the DMACR value start writes to a halted channel
NewControl ==
  LET c1 == BitOr(0, DMACR_RS)
      c2 == BitClear(c1, DMACR_RESET)
      c3 == BitClear(c2, DMACR_KEYHOLE)
      c4 == BitClear(c3, DMACR_CYC_BD_EN)
      c5 == BitOr(c4, DMACR_IOC_IRQEN)
      c6 == BitOr(c5, DMACR_DLY_IRQEN)
      c7 == BitOr(c6, DMACR_ERR_IRQEN)
      c8 == BitOr(c7, INTERRUPT_THRESHOLD * 2 ^ DMACR_IRQTHRESH_SHIFT_BITS)
  IN  BitOr(c8, INTERRUPT_TIMEOUT * 2 ^ DMACR_IRQDELAY_SHIFT_BITS)

\* the engine's view of a tail pointer write: it owns every descriptor
\* submitted so far
TailPushed(own) == [i \in DOMAIN own |-> IF own[i] = "sw" THEN "hw" ELSE own[i]]

\* DMASR with the idle flag set to b
WithIdle(sr, b) ==
  IF b THEN BitOr(sr, DMASR_IDLE) ELSE BitClear(sr, DMASR_IDLE)

\* the engine has a descriptor to work on at address cur
EngineHasWork(ch, own, cur) ==
  DescIndex(ch, cur) >= 0 /\ own[DescIndex(ch, cur)] = "hw"

\* a register write
RegWrite(r, v) == [reg |-> r, val |-> v]

\* the value of register r after the writes ws, made in order, when it held old
RECURSIVE RegAfter(_, _, _)
RegAfter(ws, r, old) ==
  IF ws = <<>> THEN old
  ELSE RegAfter(Tail(ws), r, IF Head(ws).reg = r THEN Head(ws).val ELSE old)

\* start with the tail pointer written before the control register
StartWritesTailFirst(ch, halted) ==
  <<RegWrite("TAILDESC", DescAddr(ch, populated_desc_index[ch]))>>
  \o (IF halted THEN <<RegWrite("DMACR", NewControl)>> ELSE <<>>)

\* the register writes of start, in program order: DMACR when the channel is
\* halted, then TAILDESC
StartWrites(ch, halted) ==
  (IF halted THEN <<RegWrite("DMACR", NewControl)>> ELSE <<>>)
  \o <<RegWrite("TAILDESC", DescAddr(ch, populated_desc_index[ch]))>>

dma_xilinx_axi_dma_start(ch) ==
  /\ ApiReady(ch)
  /\ configured[ch]
  /\ LET lk == dma_xilinx_axi_dma_lock_irq(lock_mode, irq_enabled, ch)
         halted == BitAnd(dmasr[ch], DMASR_HALTED) # 0
         sr == IF halted THEN BitClear(dmasr[ch], DMASR_HALTED) ELSE dmasr[ch]
         own == TailPushed(owner[ch])
         ws == StartWrites(ch, halted)
     IN  /\ dmacr' = [dmacr EXCEPT ![ch] = RegAfter(ws, "DMACR", @)]
         /\ taildesc' = [taildesc EXCEPT ![ch] = RegAfter(ws, "TAILDESC", @)]
         /\ owner' = [owner EXCEPT ![ch] = own]
         /\ dmasr' = [dmasr EXCEPT
                        ![ch] = WithIdle(sr, ~EngineHasWork(ch, own, curdesc[ch]))]
         /\ irq_enabled' = dma_xilinx_axi_dma_unlock_irq(lock_mode, lk.irq, ch, lk.key)
  /\ last' = Call("start", ch, 0, FALSE, 0)
  /\ UNCHANGED <<lockVars, lock_mode, active, init_pc, init_i, chanVars, descriptors, curdesc,
                 irq_connected, isrVars, hw_coalesce, slot_id, nsub, configured,
                 ring, cb_log, cb_status>>

\* a stop that writes a cleared control register
StopControlClearAll(cr) == 0

\* new_control of stop: the control register read back, run-stop cleared
StopControl(cr) == BitClear(cr, DMACR_RS)

dma_xilinx_axi_dma_stop(ch) ==
  /\ ApiReady(ch)
  /\ configured[ch]
  /\ dmacr' = [dmacr EXCEPT ![ch] = StopControl(@)]
  /\ last' = Call("stop", ch, 0, FALSE, 0)
  /\ UNCHANGED <<lockVars, lock_mode, active, init_pc, init_i, chanVars, descriptors, dmasr,
                 curdesc, taildesc, irqVars, isrVars, hw_coalesce, histVars>>

dma_xilinx_axi_dma_get_status(ch) ==
  /\ ApiReady(ch)
  /\ last' = Call("get_status", ch, 0,
                  BitAnd(dmasr[ch], DMASR_IDLE) = 0 /\ BitAnd(dmasr[ch], DMASR_HALTED) = 0,
                  direction[ch])
  /\ UNCHANGED <<lockVars, lock_mode, active, init_pc, init_i, chanVars, descriptors, regVars,
                 irqVars, isrVars, hw_coalesce, histVars>>

(***************************************************************************)
(* The DMA engine.                                                         *)
(***************************************************************************)
\* flag bits (bits 31..26) of the status the engine writes: complete, or
\* an internal error
HwStatusFlags == {STATUS_COMPLETE_MASK.hi, STATUS_INT_ERR_MASK.hi}

\* the application word the peripheral reports with a received frame
HwApp2Values == {0}

StatusErrorFlags ==
  STATUS_DEC_ERR_MASK.hi + STATUS_SLV_ERR_MASK.hi + STATUS_INT_ERR_MASK.hi

\* the irqthreshold field of DMACR
IrqThreshold(cr) == (cr \div (2 ^ DMACR_IRQTHRESH_SHIFT_BITS)) % 256

\* the full-ring scenario after the engine completes a descriptor
RingAfterCompletion(ch, r) ==
  IF r = "fresh"
  THEN IF \A i \in Slots(ch) : owner[ch][i] # "free" THEN "full_done" ELSE "none"
  ELSE r

\* the engine finishes the descriptor at CURDESC and follows its link
HwComplete(ch, flags, app2) ==
  /\ init_pc = "ready"
  /\ BitAnd(dmasr[ch], DMASR_HALTED) = 0
  /\ EngineHasWork(ch, owner[ch], curdesc[ch])
  /\ LET i == DescIndex(ch, curdesc[ch])
         d == descriptors[ch][i]
         count == hw_coalesce[ch] + 1
         ioc == count >= IrqThreshold(dmacr[ch])
         own == [owner[ch] EXCEPT ![i] = "done"]
         sr1 == IF ioc THEN BitOr(dmasr[ch], DMASR_IOC_IRQ) ELSE dmasr[ch]
         sr2 == IF BitAnd(flags, StatusErrorFlags) # 0
                THEN BitOr(sr1, DMASR_ERR_IRQ) ELSE sr1
     IN  /\ descriptors' =
              [descriptors EXCEPT
                 ![ch][i].status = Word(flags, d.control.lo),
                 ![ch][i].app2 = IF ch = XILINX_AXI_DMA_RX_CHANNEL_NUM THEN app2 ELSE @]
         /\ curdesc' = [curdesc EXCEPT ![ch] = d.nxtdesc]
         /\ owner' = [owner EXCEPT ![ch] = own]
         /\ hw_coalesce' = [hw_coalesce EXCEPT ![ch] = IF ioc THEN 0 ELSE count]
         /\ dmasr' = [dmasr EXCEPT
                        ![ch] = WithIdle(sr2, ~EngineHasWork(ch, own, d.nxtdesc))]
         /\ ring' = [ring EXCEPT ![ch] = RingAfterCompletion(ch, @)]
  /\ UNCHANGED <<lockVars, lock_mode, active, init_pc, init_i, chanVars, dmacr, taildesc,
                 irqVars, isrVars, slot_id, nsub, configured, cb_log, cb_status>>
  /\ last' = NoCall

\* the delay timer runs out with completions not yet signalled
HwDelayTimeout(ch) ==
  /\ init_pc = "ready"
  /\ BitAnd(dmasr[ch], DMASR_HALTED) = 0
  /\ hw_coalesce[ch] > 0
  /\ dmasr' = [dmasr EXCEPT ![ch] = BitOr(@, DMASR_DLY_IRQ)]
  /\ hw_coalesce' = [hw_coalesce EXCEPT ![ch] = 0]
  /\ UNCHANGED <<lockVars, lock_mode, active, init_pc, init_i, chanVars, descriptors, dmacr,
                 curdesc, taildesc, irqVars, isrVars, histVars>>
  /\ last' = NoCall

\* run-stop is clear: the engine halts
HwHalt(ch) ==
  /\ init_pc = "ready"
  /\ BitAnd(dmacr[ch], DMACR_RS) = 0
  /\ BitAnd(dmasr[ch], DMASR_HALTED) = 0
  /\ dmasr' = [dmasr EXCEPT ![ch] = BitOr(BitClear(@, DMASR_IDLE), DMASR_HALTED)]
  /\ UNCHANGED <<lockVars, lock_mode, active, init_pc, init_i, chanVars, descriptors, dmacr,
                 curdesc, taildesc, irqVars, isrVars, hw_coalesce, histVars>>
  /\ last' = NoCall

(***************************************************************************)
(* Interrupt handlers and the completion sweep.                            *)
(***************************************************************************)
\* the channel's interrupt line is raised: a cause bit whose enable is set
LineRaised(ch) ==
  BitAnd(BitAnd(dmasr[ch], dmacr[ch]), DMACR_ALL_IRQEN) # 0

\* a loop condition that looks at the complete flag alone
StatusNeedsCleanupCompleteOnly(status) ==
  WordAnd(status, STATUS_COMPLETE_MASK) # WordZero

\* the loop condition of the sweep
StatusNeedsCleanup(status) == WordClear(status, STATUS_TRANSFERRED_MASK) # WordZero

\* checks that take any bit of a pattern for the pattern
ChecksumFailedAnyBit(checksum_status) ==
  \/ BitAnd(checksum_status, APP2_FCS_ERR_MASK) # 0
  \/ BitAnd(checksum_status, APP2_IP_ERR_MASK) # 0
  \/ BitAnd(checksum_status, APP2_UDP_ERR_MASK) # 0
  \/ BitAnd(checksum_status, APP2_TCP_ERR_MASK) # 0

\* the checks of the checksum status word
ChecksumFailed(checksum_status) ==
  \/ BitAnd(checksum_status, APP2_FCS_ERR_MASK) # 0
  \/ BitAnd(checksum_status, APP2_IP_ERR_MASK) = APP2_IP_ERR_MASK
  \/ BitAnd(checksum_status, APP2_UDP_ERR_MASK) = APP2_UDP_ERR_MASK
  \/ BitAnd(checksum_status, APP2_TCP_ERR_MASK) = APP2_TCP_ERR_MASK

\* a retval that overlooks the slave error flag
SweepRetvalNoSlaveError(current_status, check_csum, checksum_status) ==
  IF \/ WordAnd(current_status, STATUS_DEC_ERR_MASK) # WordZero
     \/ WordAnd(current_status, STATUS_INT_ERR_MASK) # WordZero
     \/ (check_csum /\ ChecksumFailed(checksum_status))
  THEN -EFAULT
  ELSE DMA_STATUS_COMPLETE

\* retval of one iteration of the sweep
SweepRetval(current_status, check_csum, checksum_status) ==
  IF \/ WordAnd(current_status, STATUS_DEC_ERR_MASK) # WordZero
     \/ WordAnd(current_status, STATUS_SLV_ERR_MASK) # WordZero
     \/ WordAnd(current_status, STATUS_INT_ERR_MASK) # WordZero
     \/ (check_csum /\ ChecksumFailed(checksum_status))
  THEN -EFAULT
  ELSE DMA_STATUS_COMPLETE

\* the channel argument of the completion callback
CallbackChannel(dir) ==
  IF dir = MEMORY_TO_PERIPHERAL
  THEN XILINX_AXI_DMA_TX_CHANNEL_NUM ELSE XILINX_AXI_DMA_RX_CHANNEL_NUM

\* a sweep that leaves completion_desc_index where it was
NextCompletionIndexStays(ch, idx) == idx

\* completion_desc_index after the increment
NextCompletionIndex(ch, idx) ==
  IF idx + 1 >= num_descriptors(ch) THEN 0 ELSE idx + 1

\* a clean-up that leaves the status word in place
CleanedDescriptorKeepsStatus(d) == [d EXCEPT !.control = WordZero]

\* a clean-up that leaves the control word in place
CleanedDescriptorKeepsControl(d) == [d EXCEPT !.status = WordZero]

\* the descriptor after the sweep has cleaned it up
CleanedDescriptor(d) == [d EXCEPT !.control = WordZero, !.status = WordZero]

\* a sweep that carries the status it has just handled into the next iteration
SweepNextStatusStale(current_status, desc, nxt) == current_status

\* current_status for the next iteration: read from the descriptor the
\* advanced cursor stands on
SweepNextStatus(current_status, desc, nxt) == desc[nxt].status

\* a sweep that keeps one received length for the whole device
SweepLastRxSizeShared(lrs, ch, current_status) ==
  [c \in Channels |-> WordAnd(current_status, STATUS_LENGTH_MASK)]

\* channel_data->last_rx_size after the sweep's store of the length field
SweepLastRxSize(lrs, ch, current_status) ==
  [lrs EXCEPT ![ch] = WordAnd(current_status, STATUS_LENGTH_MASK)]

\* a handler that leaves the error cause bit as it finds it
ErrorNotAcked(sr) == sr

\* DMASR after the handler's write-1-to-clear of a set error cause bit
ErrorAcked(sr) ==
  IF BitAnd(sr, DMASR_ERR_IRQ) # 0 THEN BitClear(sr, DMASR_ERR_IRQ) ELSE sr

\* a handler that drains on the completion cause alone
SweepCausesIocOnly == DMASR_IOC_IRQ

\* the cause bits on which the handler acknowledges and drains
SweepCauses == DMASR_IOC_IRQ + DMASR_DLY_IRQ

\* dma_xilinx_axi_dma_tx_isr / _rx_isr up to the first read of a descriptor
IsrEnter(ch) ==
  /\ init_pc = "ready"
  /\ irq_connected[ch] /\ irq_enabled[ch]
  /\ ~irq_locked
  /\ \A c \in Channels : isr_pc[c] = "idle"
  /\ LineRaised(ch)
  /\ LET sr == dmasr[ch]
         sr1 == ErrorAcked(sr)
         cause == BitAnd(sr, SweepCauses)
     IN  IF cause # 0
         THEN /\ dmasr' = [dmasr EXCEPT ![ch] = BitClear(sr1, cause)]
              /\ isr_pc' = [isr_pc EXCEPT ![ch] = "sweep"]
              /\ isr_irq_enabled' = [isr_irq_enabled EXCEPT ![ch] = irq_enabled[ch]]
              /\ irq_enabled' = [irq_enabled EXCEPT ![ch] = FALSE]
              /\ isr_status' =
                   [isr_status EXCEPT
                      ![ch] = descriptors[ch][completion_desc_index[ch]].status]
              /\ processed_packets' = [processed_packets EXCEPT ![ch] = 0]
         ELSE /\ dmasr' = [dmasr EXCEPT ![ch] = sr1]
              /\ UNCHANGED <<isr_pc, isr_irq_enabled, irq_enabled, isr_status,
                             processed_packets>>
  /\ UNCHANGED <<lockVars, lock_mode, active, init_pc, init_i, chanVars, descriptors, dmacr,
                 curdesc, taildesc, irq_connected, hw_coalesce, histVars>>
  /\ last' = NoCall

\* one iteration of the loop of dma_xilinx_axi_dma_clean_up_sg_descriptors
IsrSweepIteration(ch) ==
  /\ isr_pc[ch] = "sweep"
  /\ StatusNeedsCleanup(isr_status[ch])
  /\ LET idx == completion_desc_index[ch]
         d == descriptors[ch][idx]
         retval == SweepRetval(isr_status[ch], check_csum_in_isr[ch], d.app2)
         nxt == NextCompletionIndex(ch, idx)
         cleaned == [descriptors[ch] EXCEPT ![idx] = CleanedDescriptor(d)]
     IN  /\ last_rx_size' = SweepLastRxSize(last_rx_size, ch, isr_status[ch])
         /\ cb_log' =
              IF completion_callback[ch] # NULL
              THEN Append(cb_log, [id |-> slot_id[ch][idx], of |-> ch,
                                   channel |-> CallbackChannel(direction[ch]),
                                   invd |-> direction[ch] = PERIPHERAL_TO_MEMORY])
              ELSE cb_log
         /\ cb_status' = IF completion_callback[ch] # NULL THEN retval ELSE cb_status
         /\ descriptors' = [descriptors EXCEPT ![ch] = cleaned]
         /\ completion_desc_index' = [completion_desc_index EXCEPT ![ch] = nxt]
         /\ isr_status' = [isr_status EXCEPT ![ch] = SweepNextStatus(@, cleaned, nxt)]
         /\ processed_packets' = [processed_packets EXCEPT ![ch] = @ + 1]
         /\ owner' = [owner EXCEPT ![ch][idx] = "free"]
         /\ slot_id' = [slot_id EXCEPT ![ch][idx] = 0]
         /\ ring' = [ring EXCEPT ![ch] = IF @ = "full_done" THEN "reclaimed" ELSE @]
  /\ UNCHANGED <<lockVars, lock_mode, active, init_pc, init_i, direction, populated_desc_index,
                 completion_callback, sg_desc_app0, check_csum_in_isr, regVars,
                 irqVars, isr_pc, isr_irq_enabled, hw_coalesce, nsub, configured>>
  /\ last' = NoCall

\* the sweep's loop ends and the handler restores the line and returns
IsrExit(ch) ==
  /\ isr_pc[ch] = "sweep"
  /\ ~StatusNeedsCleanup(isr_status[ch])
  /\ isr_pc' = [isr_pc EXCEPT ![ch] = "idle"]
  /\ irq_enabled' = [irq_enabled EXCEPT ![ch] = IF isr_irq_enabled[ch] THEN TRUE ELSE @]
  /\ isr_irq_enabled' = [isr_irq_enabled EXCEPT ![ch] = FALSE]
  /\ isr_status' = [isr_status EXCEPT ![ch] = WordZero]
  /\ processed_packets' = [processed_packets EXCEPT ![ch] = 0]
  /\ UNCHANGED <<lockVars, lock_mode, active, init_pc, init_i, chanVars, descriptors, regVars,
                 irq_connected, hw_coalesce, histVars>>
  /\ last' = NoCall

(***************************************************************************)
(* The specification.                                                      *)
(***************************************************************************)
\* every step but a reload: init, configure, start, stop, get_status, the
\* engine and the interrupt handlers
Device ==
  \/ InitBegin
  \/ InitPoll
  \/ HwResetDone
  \/ \E ch \in Channels : \E dma_cfg \in DmaConfigs(ch) :
       ~configured[ch] /\ dma_xilinx_axi_dma_configure(ch, dma_cfg)
  \/ \E ch \in Channels : dma_xilinx_axi_dma_start(ch)
  \/ \E ch \in Channels : dma_xilinx_axi_dma_stop(ch)
  \/ \E ch \in Channels : dma_xilinx_axi_dma_get_status(ch)
  \/ \E ch \in Channels, flags \in HwStatusFlags, app2 \in HwApp2Values :
       HwComplete(ch, flags, app2)
  \/ \E ch \in Channels : HwDelayTimeout(ch)
  \/ \E ch \in Channels : HwHalt(ch)
  \/ \E ch \in Channels : IsrEnter(ch)
  \/ \E ch \in Channels : IsrSweepIteration(ch)
  \/ \E ch \in Channels : IsrExit(ch)

Next ==
  \/ Device
  \/ \E ch \in Channels, size \in ReloadSizes : Reload(ch, SRC_BUFFER, DST_BUFFER, size)

Spec == Init /\ [][Next]_vars

\* the driver with the TX channel driven by reloads of blocks whose sizes lie
\* around the capacity of the length field
InitLength == InitState({"LOCK_CHANNEL_IRQ"}, {{XILINX_AXI_DMA_TX_CHANNEL_NUM}})

NextLength ==
  \/ Device
  \/ \E ch \in Channels, size \in LengthSizes : Reload(ch, SRC_BUFFER, DST_BUFFER, size)

SpecLength == InitLength /\ [][NextLength]_vars

\* the driver with a two-block chain on either channel, with and without
\* checksum offload, and an engine that reports every combination of the
\* error flags and a range of checksum words
SweepStatusFlags ==
  {STATUS_COMPLETE_MASK.hi} \cup
  {STATUS_INT_ERR_MASK.hi * k : k \in 1..7} \cup
  {STATUS_COMPLETE_MASK.hi + STATUS_INT_ERR_MASK.hi}

SweepApp2Values ==
  {0, 8, 16, 24, 32, APP2_IP_ERR_MASK, APP2_UDP_ERR_MASK, APP2_TCP_ERR_MASK,
   APP2_FCS_ERR_MASK, APP2_FCS_ERR_MASK + APP2_TCP_ERR_MASK}

\* what the engine and the peripheral write on a completion: flags and app2
SweepCompletions ==
  {<<f, 0>> : f \in SweepStatusFlags} \cup
  {<<STATUS_COMPLETE_MASK.hi, a>> : a \in SweepApp2Values}

SweepConfigs(ch) ==
  { DmaConfig(<<PlainBlock(100), PlainBlock(200)>>, ChannelDirection(ch), linked,
              CALLBACK) :
      linked \in {XILINX_AXI_DMA_LINKED_CHANNEL_NO_CSUM_OFFLOAD,
                  XILINX_AXI_DMA_LINKED_CHANNEL_FULL_CSUM_OFFLOAD} }

NextSweep ==
  \/ InitBegin
  \/ InitPoll
  \/ HwResetDone
  \/ \E ch \in Channels : \E dma_cfg \in SweepConfigs(ch) :
       ~configured[ch] /\ dma_xilinx_axi_dma_configure(ch, dma_cfg)
  \/ \E ch \in Channels : dma_xilinx_axi_dma_start(ch)
  \/ \E ch \in Channels : \E c \in SweepCompletions : HwComplete(ch, c[1], c[2])
  \/ \E ch \in Channels : HwDelayTimeout(ch)
  \/ \E ch \in Channels : IsrEnter(ch)
  \/ \E ch \in Channels : IsrSweepIteration(ch)
  \/ \E ch \in Channels : IsrExit(ch)

SpecSweep == Init /\ [][NextSweep]_vars

\* block chains for the chain loop of configure: two and three blocks, a
\* first block one byte-count bit wider than the length field, and a second
\* block with a decrementing source address
ChainSet ==
  { <<PlainBlock(100), PlainBlock(200)>>,
    <<PlainBlock(100), PlainBlock(200), PlainBlock(300)>>,
    <<Block(Word(1, 100), DMA_ADDR_ADJ_INCREMENT, DMA_ADDR_ADJ_NO_CHANGE),
      PlainBlock(200)>>,
    <<PlainBlock(100),
      Block(Word(0, 200), DMA_ADDR_ADJ_DECREMENT, DMA_ADDR_ADJ_NO_CHANGE)>> }

ChainConfigs(ch) ==
  { DmaConfig(c, ChannelDirection(ch), XILINX_AXI_DMA_LINKED_CHANNEL_NO_CSUM_OFFLOAD,
              CALLBACK) : c \in ChainSet }

\* the driver configured with the chains of ChainSet
NextChain ==
  \/ InitBegin
  \/ InitPoll
  \/ HwResetDone
  \/ \E ch \in Channels : \E dma_cfg \in ChainConfigs(ch) :
       ~configured[ch] /\ dma_xilinx_axi_dma_configure(ch, dma_cfg)
  \/ \E ch \in Channels : dma_xilinx_axi_dma_start(ch)
  \/ \E ch \in Channels, flags \in HwStatusFlags, app2 \in HwApp2Values :
       HwComplete(ch, flags, app2)
  \/ \E ch \in Channels : HwDelayTimeout(ch)
  \/ \E ch \in Channels : IsrEnter(ch)
  \/ \E ch \in Channels : IsrSweepIteration(ch)
  \/ \E ch \in Channels : IsrExit(ch)

SpecChain == Init /\ [][NextChain]_vars

\* the driver with both channels in use at once
InitBoth ==
  InitState(LockModes, {{XILINX_AXI_DMA_TX_CHANNEL_NUM, XILINX_AXI_DMA_RX_CHANNEL_NUM}})

\* the configuration of channel ch when both are in use: a two-block chain,
\* a callback, checksum offload on the receive channel
BothConfigs(ch) ==
  { DmaConfig(<<PlainBlock(100 + 100 * ch), PlainBlock(300)>>, ChannelDirection(ch),
              IF ch = XILINX_AXI_DMA_RX_CHANNEL_NUM
              THEN XILINX_AXI_DMA_LINKED_CHANNEL_FULL_CSUM_OFFLOAD
              ELSE XILINX_AXI_DMA_LINKED_CHANNEL_NO_CSUM_OFFLOAD,
              CALLBACK) }

\* the size of the blocks reloaded when both channels are in use
BothSizes == {Word(0, 50)}

NextBoth ==
  \/ InitBegin
  \/ InitPoll
  \/ HwResetDone
  \/ \E ch \in Channels : \E dma_cfg \in BothConfigs(ch) :
       ~configured[ch] /\ dma_xilinx_axi_dma_configure(ch, dma_cfg)
  \/ \E ch \in Channels, size \in BothSizes : Reload(ch, SRC_BUFFER, DST_BUFFER, size)
  \/ \E ch \in Channels : dma_xilinx_axi_dma_start(ch)
  \/ \E ch \in Channels : dma_xilinx_axi_dma_stop(ch)
  \/ \E ch \in Channels : HwComplete(ch, STATUS_COMPLETE_MASK.hi, 0)
  \/ \E ch \in Channels : HwHalt(ch)
  \/ \E ch \in Channels : IsrEnter(ch)
  \/ \E ch \in Channels : IsrSweepIteration(ch)
  \/ \E ch \in Channels : IsrExit(ch)

SpecBoth == InitBoth /\ [][NextBoth]_vars

(***************************************************************************)
(* Submit and start statement by statement, with the interrupt handlers    *)
(* free to run between two statements whenever their line is enabled and   *)
(* the CPU's interrupts are not locked.                                    *)
(***************************************************************************)
\* irq_lock() of LOCK_ALL_IRQS: the CPU's interrupt lock after lock_irq
CpuLocked(mode, locked) == IF mode = "LOCK_ALL_IRQS" THEN TRUE ELSE locked

\* irq_unlock(key) of LOCK_ALL_IRQS: the CPU's interrupt lock after unlock_irq
CpuUnlocked(mode, locked, key) == IF mode = "LOCK_ALL_IRQS" THEN key # 0 ELSE locked

\* the thread runs: the device is up and no interrupt handler is running
ThreadRuns(ch) ==
  /\ init_pc = "ready"
  /\ ch \in active
  /\ configured[ch]
  /\ \A c \in Channels : isr_pc[c] = "idle"

\* the thread stands at program point p of function f called on channel ch
ThreadAt(f, p, ch) ==
  /\ ThreadRuns(ch)
  /\ thread.fn = f /\ thread.pc = p /\ thread.channel = ch

\* the call returns r: unlock_irq, and the thread is outside again
ThreadReturns(o, ch, r) ==
  /\ irq_enabled' = dma_xilinx_axi_dma_unlock_irq(lock_mode, irq_enabled, ch, thread.key)
  /\ irq_locked' = CpuUnlocked(lock_mode, irq_locked, thread.key)
  /\ thread' = NotInCall
  /\ last' = Call(o, ch, r, FALSE, 0)

\* the thread enters function f on channel ch: lock_irq
ThreadLocks(f, p, ch, size) ==
  /\ ThreadRuns(ch)
  /\ thread = NotInCall
  /\ LET lk == dma_xilinx_axi_dma_lock_irq(lock_mode, irq_enabled, ch)
     IN  /\ irq_enabled' = lk.irq
         /\ irq_locked' = CpuLocked(lock_mode, irq_locked)
         /\ thread' = InCall(f, p, ch, lk.key, size)
  /\ last' = NoCall
  /\ UNCHANGED <<lock_mode, active, init_pc, init_i, chanVars, descriptors, regVars,
                 irq_connected, isrVars, hw_coalesce, histVars>>

\* transfer_block: lock_irq
SubmitLock(ch, size) ==
  /\ nsub[ch] < MaxSubmits
  /\ ThreadLocks("transfer_block", "check", ch, size)

\* transfer_block: the test of the next descriptor
SubmitCheck(ch) ==
  /\ ThreadAt("transfer_block", "check", ch)
  /\ IF DescriptorInUse(descriptors[ch][NextDescIndex(ch, populated_desc_index[ch])])
     THEN ThreadReturns("reload", ch, -EBUSY)
     ELSE /\ thread' = [thread EXCEPT !.pc = "address"]
          /\ last' = NoCall
          /\ UNCHANGED <<irq_enabled, irq_locked>>
  /\ UNCHANGED <<lock_mode, active, init_pc, init_i, chanVars, descriptors, regVars,
                 irq_connected, isrVars, hw_coalesce, histVars>>

\* transfer_block: the stores of buffer_address and app0, and the size test
SubmitWriteAddress(ch) ==
  /\ ThreadAt("transfer_block", "address", ch)
  /\ descriptors' =
       [descriptors EXCEPT
          ![ch][NextDescIndex(ch, populated_desc_index[ch])] =
             [@ EXCEPT !.buffer_address = IF ch = XILINX_AXI_DMA_TX_CHANNEL_NUM
                                          THEN SRC_BUFFER ELSE DST_BUFFER,
                       !.app0 = sg_desc_app0[ch]]]
  /\ IF BlockTooLarge(thread.size)
     THEN ThreadReturns("reload", ch, -EINVAL)
     ELSE /\ thread' = [thread EXCEPT !.pc = "control"]
          /\ last' = NoCall
          /\ UNCHANGED <<irq_enabled, irq_locked>>
  /\ UNCHANGED <<lock_mode, active, init_pc, init_i, chanVars, regVars,
                 irq_connected, isrVars, hw_coalesce, histVars>>

\* transfer_block: the stores of the control word
SubmitWriteControl(ch) ==
  /\ ThreadAt("transfer_block", "control", ch)
  /\ descriptors' =
       [descriptors EXCEPT
          ![ch][NextDescIndex(ch, populated_desc_index[ch])].control =
             BlockControl(thread.size, TRUE, TRUE)]
  /\ thread' = [thread EXCEPT !.pc = "publish"]
  /\ last' = NoCall
  /\ UNCHANGED <<lock_mode, active, init_pc, init_i, chanVars, regVars, irqVars,
                 isrVars, hw_coalesce, histVars, irq_locked>>

\* transfer_block: the store of populated_desc_index
SubmitPublish(ch) ==
  /\ ThreadAt("transfer_block", "publish", ch)
  /\ LET n == NextDescIndex(ch, populated_desc_index[ch])
     IN  /\ populated_desc_index' = [populated_desc_index EXCEPT ![ch] = n]
         /\ owner' = [owner EXCEPT ![ch][n] = "sw"]
         /\ slot_id' = [slot_id EXCEPT ![ch][n] = nsub[ch] + 1]
  /\ nsub' = [nsub EXCEPT ![ch] = @ + 1]
  /\ ring' = [ring EXCEPT ![ch] = IF @ = "reclaimed" THEN "refilled" ELSE @]
  /\ thread' = [thread EXCEPT !.pc = "unlock"]
  /\ last' = NoCall
  /\ UNCHANGED <<lock_mode, active, init_pc, init_i, direction, completion_desc_index,
                 completion_callback, last_rx_size, sg_desc_app0, check_csum_in_isr,
                 descriptors, regVars, irqVars, isrVars, hw_coalesce, configured,
                 cb_log, cb_status, irq_locked>>

\* transfer_block: unlock_irq and return 0
SubmitUnlock(ch) ==
  /\ ThreadAt("transfer_block", "unlock", ch)
  /\ ThreadReturns("reload", ch, 0)
  /\ UNCHANGED <<lock_mode, active, init_pc, init_i, chanVars, descriptors, regVars,
                 irq_connected, isrVars, hw_coalesce, histVars>>

\* start: lock_irq
StartLock(ch) ==
  /\ thread.fn = "none"
  /\ ThreadLocks("start", "halted", ch, WordZero)

\* start: the read of DMASR and, on a halted channel, the write of DMACR
StartArm(ch) ==
  /\ ThreadAt("start", "halted", ch)
  /\ IF BitAnd(dmasr[ch], DMASR_HALTED) # 0
     THEN /\ dmacr' = [dmacr EXCEPT ![ch] = NewControl]
          /\ dmasr' = [dmasr EXCEPT ![ch] = BitClear(@, DMASR_HALTED)]
     ELSE UNCHANGED <<dmacr, dmasr>>
  /\ thread' = [thread EXCEPT !.pc = "tail"]
  /\ last' = NoCall
  /\ UNCHANGED <<lock_mode, active, init_pc, init_i, chanVars, descriptors, curdesc,
                 taildesc, irqVars, isrVars, hw_coalesce, histVars, irq_locked>>

\* start: the write of TAILDESC
StartTail(ch) ==
  /\ ThreadAt("start", "tail", ch)
  /\ LET own == TailPushed(owner[ch])
     IN  /\ taildesc' = [taildesc EXCEPT ![ch] = DescAddr(ch, populated_desc_index[ch])]
         /\ owner' = [owner EXCEPT ![ch] = own]
         /\ dmasr' = [dmasr EXCEPT
                        ![ch] = WithIdle(@, ~EngineHasWork(ch, own, curdesc[ch]))]
  /\ thread' = [thread EXCEPT !.pc = "unlock"]
  /\ last' = NoCall
  /\ UNCHANGED <<lock_mode, active, init_pc, init_i, chanVars, descriptors, dmacr,
                 curdesc, irqVars, isrVars, hw_coalesce, slot_id, nsub, configured,
                 ring, cb_log, cb_status, irq_locked>>

\* start: unlock_irq and return 0
StartUnlock(ch) ==
  /\ ThreadAt("start", "unlock", ch)
  /\ ThreadReturns("start", ch, 0)
  /\ UNCHANGED <<lock_mode, active, init_pc, init_i, chanVars, descriptors, regVars,
                 irq_connected, isrVars, hw_coalesce, histVars>>

\* the driver in each of the three exclusion modes, both channels in use
NextLock ==
  \/ InitBegin
  \/ InitPoll
  \/ HwResetDone
  \/ \E ch \in Channels : \E dma_cfg \in BothConfigs(ch) :
       ~configured[ch] /\ dma_xilinx_axi_dma_configure(ch, dma_cfg)
  \/ \E ch \in Channels, size \in BothSizes : SubmitLock(ch, size)
  \/ \E ch \in Channels : SubmitCheck(ch)
  \/ \E ch \in Channels : SubmitWriteAddress(ch)
  \/ \E ch \in Channels : SubmitWriteControl(ch)
  \/ \E ch \in Channels : SubmitPublish(ch)
  \/ \E ch \in Channels : SubmitUnlock(ch)
  \/ \E ch \in Channels : StartLock(ch)
  \/ \E ch \in Channels : StartArm(ch)
  \/ \E ch \in Channels : StartTail(ch)
  \/ \E ch \in Channels : StartUnlock(ch)
  \/ \E ch \in Channels : HwComplete(ch, STATUS_COMPLETE_MASK.hi, 0)
  \/ \E ch \in Channels : IsrEnter(ch)
  \/ \E ch \in Channels : IsrSweepIteration(ch)
  \/ \E ch \in Channels : IsrExit(ch)

SpecLock == InitBoth /\ [][NextLock]_vars

(***************************************************************************)
(* The sweep with its callback calling back into the driver: one iteration *)
(* of the loop in two steps, up to the callback and after it, and between  *)
(* them the calls the callback makes.                                      *)
(***************************************************************************)
\* the iteration up to and including the call of the completion callback
SweepCallback(ch) ==
  /\ isr_pc[ch] = "sweep"
  /\ StatusNeedsCleanup(isr_status[ch])
  /\ LET idx == completion_desc_index[ch]
         d == descriptors[ch][idx]
     IN  /\ last_rx_size' = SweepLastRxSize(last_rx_size, ch, isr_status[ch])
         /\ cb_log' =
              IF completion_callback[ch] # NULL
              THEN Append(cb_log, [id |-> slot_id[ch][idx], of |-> ch,
                                   channel |-> CallbackChannel(direction[ch]),
                                   invd |-> direction[ch] = PERIPHERAL_TO_MEMORY])
              ELSE cb_log
         /\ cb_status' =
              IF completion_callback[ch] # NULL
              THEN SweepRetval(isr_status[ch], check_csum_in_isr[ch], d.app2)
              ELSE cb_status
  /\ isr_pc' = [isr_pc EXCEPT ![ch] = "callback"]
  /\ last' = NoCall
  /\ UNCHANGED <<lockVars, lock_mode, active, init_pc, init_i, direction,
                 populated_desc_index, completion_desc_index, completion_callback,
                 sg_desc_app0, check_csum_in_isr, descriptors, regVars, irqVars,
                 isr_irq_enabled, isr_status, processed_packets, hw_coalesce, owner,
                 slot_id, nsub, configured, ring>>

\* the callback of channel ch calls reload on channel target
CallbackReload(ch, target, size) ==
  /\ isr_pc[ch] = "callback"
  /\ completion_callback[ch] # NULL
  /\ target \in active /\ configured[target]
  /\ nsub[target] < MaxSubmits
  /\ LET r == dma_xilinx_axi_dma_transfer_block(
                lock_mode, target, SubmitState(target), sg_desc_app0[target],
                IF target = XILINX_AXI_DMA_TX_CHANNEL_NUM THEN SRC_BUFFER ELSE DST_BUFFER,
                size, TRUE, TRUE)
     IN  /\ descriptors' = [descriptors EXCEPT ![target] = r.st.desc]
         /\ populated_desc_index' = [populated_desc_index EXCEPT ![target] = r.st.pop]
         /\ irq_enabled' = r.st.irq
         /\ owner' = [owner EXCEPT ![target] = r.st.own]
         /\ slot_id' = [slot_id EXCEPT ![target] = r.st.sid]
         /\ nsub' = [nsub EXCEPT ![target] = r.st.n]
         /\ last' = Call("reload", target, r.ret, FALSE, 0)
  /\ UNCHANGED <<lockVars, lock_mode, active, init_pc, init_i, direction,
                 completion_desc_index, completion_callback, last_rx_size, sg_desc_app0,
                 check_csum_in_isr, regVars, irq_connected, isrVars, hw_coalesce,
                 configured, ring, cb_log, cb_status>>

\* the callback of channel ch calls start on channel target
CallbackStart(ch, target) ==
  /\ isr_pc[ch] = "callback"
  /\ completion_callback[ch] # NULL
  /\ target \in active /\ configured[target]
  /\ LET lk == dma_xilinx_axi_dma_lock_irq(lock_mode, irq_enabled, target)
         halted == BitAnd(dmasr[target], DMASR_HALTED) # 0
         sr == IF halted THEN BitClear(dmasr[target], DMASR_HALTED) ELSE dmasr[target]
         own == TailPushed(owner[target])
         ws == StartWrites(target, halted)
     IN  /\ dmacr' = [dmacr EXCEPT ![target] = RegAfter(ws, "DMACR", @)]
         /\ taildesc' = [taildesc EXCEPT ![target] = RegAfter(ws, "TAILDESC", @)]
         /\ owner' = [owner EXCEPT ![target] = own]
         /\ dmasr' = [dmasr EXCEPT
                        ![target] = WithIdle(sr, ~EngineHasWork(target, own, curdesc[target]))]
         /\ irq_enabled' =
              dma_xilinx_axi_dma_unlock_irq(lock_mode, lk.irq, target, lk.key)
  /\ last' = Call("start", target, 0, FALSE, 0)
  /\ UNCHANGED <<lockVars, lock_mode, active, init_pc, init_i, chanVars, descriptors,
                 curdesc, irq_connected, isrVars, hw_coalesce, slot_id, nsub,
                 configured, ring, cb_log, cb_status>>

\* the iteration after the callback: the descriptor is cleared, the cursor
\* advanced and the next status read
SweepClear(ch) ==
  /\ isr_pc[ch] = "callback"
  /\ LET idx == completion_desc_index[ch]
         nxt == NextCompletionIndex(ch, idx)
         cleaned == [descriptors[ch] EXCEPT ![idx] = CleanedDescriptor(@)]
     IN  /\ descriptors' = [descriptors EXCEPT ![ch] = cleaned]
         /\ completion_desc_index' = [completion_desc_index EXCEPT ![ch] = nxt]
         /\ isr_status' = [isr_status EXCEPT ![ch] = SweepNextStatus(@, cleaned, nxt)]
         /\ processed_packets' = [processed_packets EXCEPT ![ch] = @ + 1]
         /\ owner' = [owner EXCEPT ![ch][idx] = "free"]
         /\ slot_id' = [slot_id EXCEPT ![ch][idx] = 0]
  /\ ring' = [ring EXCEPT ![ch] = IF @ = "full_done" THEN "reclaimed" ELSE @]
  /\ isr_pc' = [isr_pc EXCEPT ![ch] = "sweep"]
  /\ last' = NoCall
  /\ UNCHANGED <<lockVars, lock_mode, active, init_pc, init_i, direction,
                 populated_desc_index, completion_callback, last_rx_size, sg_desc_app0,
                 check_csum_in_isr, regVars, irqVars, isr_irq_enabled, hw_coalesce,
                 nsub, configured, cb_log, cb_status>>

\* start called with a channel number that is no channel: lock_irq and
\* unlock_irq run before and after the test of the number, and in the
\* per-channel mode they read the line number past the end of the channel
\* array; line stands for the line they find there: a channel's, or, with
\* 2, another one
StartInvalidChannel(line) ==
  /\ init_pc = "ready"
  /\ thread = NotInCall
  /\ \A c \in Channels : isr_pc[c] = "idle"
  /\ IF lock_mode = "LOCK_CHANNEL_IRQ" /\ line \notin Channels
     THEN UNCHANGED irq_enabled
     ELSE LET ch == IF line \in Channels THEN line ELSE 0
              lk == dma_xilinx_axi_dma_lock_irq(lock_mode, irq_enabled, ch)
          IN  irq_enabled' =
                dma_xilinx_axi_dma_unlock_irq(lock_mode, lk.irq, ch, lk.key)
  /\ last' = Call("start", 2, -EINVAL, FALSE, 0)
  /\ UNCHANGED <<lockVars, lock_mode, active, init_pc, init_i, chanVars, descriptors,
                 regVars, irq_connected, isrVars, hw_coalesce, histVars>>

\* the driver with the callback calling reload and start from the sweep
NextRestore ==
  \/ InitBegin
  \/ InitPoll
  \/ HwResetDone
  \/ \E ch \in Channels : \E dma_cfg \in BothConfigs(ch) :
       ~configured[ch] /\ dma_xilinx_axi_dma_configure(ch, dma_cfg)
  \/ \E ch \in Channels, size \in BothSizes : SubmitLock(ch, size)
  \/ \E ch \in Channels : SubmitCheck(ch)
  \/ \E ch \in Channels : SubmitWriteAddress(ch)
  \/ \E ch \in Channels : SubmitWriteControl(ch)
  \/ \E ch \in Channels : SubmitPublish(ch)
  \/ \E ch \in Channels : SubmitUnlock(ch)
  \/ \E ch \in Channels : StartLock(ch)
  \/ \E ch \in Channels : StartArm(ch)
  \/ \E ch \in Channels : StartTail(ch)
  \/ \E ch \in Channels : StartUnlock(ch)
  \/ \E line \in 0..2 : StartInvalidChannel(line)
  \/ \E ch \in Channels : HwComplete(ch, STATUS_COMPLETE_MASK.hi, 0)
  \/ \E ch \in Channels : IsrEnter(ch)
  \/ \E ch \in Channels : SweepCallback(ch)
  \/ \E ch, target \in Channels, size \in BothSizes : CallbackReload(ch, target, size)
  \/ \E ch, target \in Channels : CallbackStart(ch, target)
  \/ \E ch \in Channels : SweepClear(ch)
  \/ \E ch \in Channels : IsrExit(ch)

SpecRestore == InitBoth /\ [][NextRestore]_vars

(***************************************************************************)
(* The running driver under fair interrupt delivery: a raised line is      *)
(* served, a handler runs to its end, and the engine's delay timer fires.  *)
(***************************************************************************)
\* the configuration of channel ch: a two-block chain with a callback
LiveConfigs(ch) ==
  { DmaConfig(<<PlainBlock(100), PlainBlock(200)>>, ChannelDirection(ch),
              XILINX_AXI_DMA_LINKED_CHANNEL_NO_CSUM_OFFLOAD, CALLBACK) }

NextLive ==
  \/ InitBegin
  \/ InitPoll
  \/ HwResetDone
  \/ \E ch \in Channels : \E dma_cfg \in LiveConfigs(ch) :
       ~configured[ch] /\ dma_xilinx_axi_dma_configure(ch, dma_cfg)
  \/ \E ch \in Channels : Reload(ch, SRC_BUFFER, DST_BUFFER, Word(0, 100))
  \/ \E ch \in Channels : dma_xilinx_axi_dma_start(ch)
  \/ \E ch \in Channels, flags \in HwStatusFlags : HwComplete(ch, flags, 0)
  \/ \E ch \in Channels : HwDelayTimeout(ch)
  \/ \E ch \in Channels : IsrEnter(ch)
  \/ \E ch \in Channels : IsrSweepIteration(ch)
  \/ \E ch \in Channels : IsrExit(ch)

FairInterrupts ==
  \A ch \in Channels :
    /\ WF_vars(HwDelayTimeout(ch))
    /\ WF_vars(IsrEnter(ch))
    /\ WF_vars(IsrSweepIteration(ch))
    /\ WF_vars(IsrExit(ch))

SpecLive == Init /\ [][NextLive]_vars /\ FairInterrupts

\* configurations for a channel that is configured again and again: chains
\* of one and of two blocks
ReconfConfigs(ch) ==
  { DmaConfig(c, ChannelDirection(ch), XILINX_AXI_DMA_LINKED_CHANNEL_NO_CSUM_OFFLOAD,
              CALLBACK) : c \in {<<PlainBlock(100)>>, <<PlainBlock(100), PlainBlock(200)>>} }

\* the driver with configure called at any time, also on a started channel
NextReconf ==
  \/ InitBegin
  \/ InitPoll
  \/ HwResetDone
  \/ \E ch \in Channels : \E dma_cfg \in ReconfConfigs(ch) :
       dma_xilinx_axi_dma_configure(ch, dma_cfg)
  \/ \E ch \in Channels : Reload(ch, SRC_BUFFER, DST_BUFFER, Word(0, 100))
  \/ \E ch \in Channels : dma_xilinx_axi_dma_start(ch)
  \/ \E ch \in Channels : dma_xilinx_axi_dma_stop(ch)
  \/ \E ch \in Channels : dma_xilinx_axi_dma_get_status(ch)
  \/ \E ch \in Channels : HwComplete(ch, STATUS_COMPLETE_MASK.hi, 0)
  \/ \E ch \in Channels : HwDelayTimeout(ch)
  \/ \E ch \in Channels : HwHalt(ch)
  \/ \E ch \in Channels : IsrEnter(ch)
  \/ \E ch \in Channels : IsrSweepIteration(ch)
  \/ \E ch \in Channels : IsrExit(ch)

SpecReconf == Init /\ [][NextReconf]_vars

(***************************************************************************)
(* Properties of the driver.                                               *)
(***************************************************************************)
\* the callbacks in a log for the submission with serial number id on ch
CallbacksIn(log, ch, id) ==
  Cardinality({k \in 1..Len(log) : log[k].of = ch /\ log[k].id = id})

\* the callbacks made so far for the submission with serial number id on ch
CallbacksFor(ch, id) == CallbacksIn(cb_log, ch, id)

\* a reload step of channel ch with a block of the given size
ReloadStep(ch, size) == Reload(ch, SRC_BUFFER, DST_BUFFER, size)

\* a configure step of channel ch
ConfigureStep(ch) ==
  \E dma_cfg \in DmaConfigs(ch) : dma_xilinx_axi_dma_configure(ch, dma_cfg)

\* a descriptor with a non-zero control or status word
NonZero(d) == d.control # WordZero \/ d.status # WordZero

\* every slot of the ring of ch has control = 0 and status = 0
FullyDrained(ch) == \A i \in Slots(ch) : ~NonZero(descriptors[ch][i])

\* the slot the next submit on ch goes to
NextSlot(ch) == NextDescIndex(ch, populated_desc_index[ch])

\* C1: completion_desc_index never advances past populated_desc_index, except
\* when the ring is fully drained: a step that moves the completion cursor
\* off the slot the submit cursor stands on leaves no descriptor in flight.
C1_RingInvariant ==
  [][\A ch \in Channels :
       (/\ completion_desc_index'[ch] # completion_desc_index[ch]
        /\ completion_desc_index[ch] = populated_desc_index[ch])
       => FullyDrained(ch)']_vars

\* C2: with a callback registered, a descriptor the engine completed gets
\* exactly one callback, made when the sweep reclaims it; no callback is made
\* for anything else; the sweep leaves the slot with control and status zero;
\* and a submit writes a slot only when it holds no completed descriptor and
\* its control and status are zero.
C2_ExactlyOnceDelivery ==
  [][\A ch \in Channels : \A i \in Slots(ch) :
       /\ owner[ch][i] = "done" => owner'[ch][i] \in {"done", "free"}
       /\ (owner[ch][i] = "done" /\ owner'[ch][i] = "free")
          => /\ ~NonZero(descriptors'[ch][i])
             /\ completion_callback[ch] # NULL
                => /\ CallbacksFor(ch, slot_id[ch][i]) = 0
                   /\ CallbacksIn(cb_log', ch, slot_id[ch][i]) = 1
       /\ (cb_log' # cb_log /\ i = completion_desc_index[ch] /\ isr_pc[ch] = "sweep")
          => /\ owner[ch][i] = "done"
             /\ cb_log' = Append(cb_log, cb_log'[Len(cb_log')])
             /\ cb_log'[Len(cb_log')].id = slot_id[ch][i]
       /\ slot_id'[ch][i] \notin {0, slot_id[ch][i]}
          => ~NonZero(descriptors[ch][i]) /\ owner[ch][i] # "done"
       /\ \A id \in 1..MaxSubmits : CallbacksIn(cb_log', ch, id) <= 1]_vars

\* a slot was submitted, completed, called back once, reclaimed and reused
C2_Witness ==
  \E ch \in Channels : \E i \in Slots(ch) :
    /\ slot_id[ch][i] > num_descriptors(ch)
    /\ CallbacksFor(ch, slot_id[ch][i] - num_descriptors(ch)) = 1

\* C3: a reload issued while the slot after populated_desc_index has a
\* non-zero control or status returns -EBUSY and leaves both cursors and
\* every descriptor as they were.
C3_BusyRejection ==
  [][\A ch \in Channels, size \in ReloadSizes :
       ReloadStep(ch, size) /\ NonZero(descriptors[ch][NextSlot(ch)])
       => /\ last'.ret = -EBUSY
          /\ UNCHANGED <<populated_desc_index, completion_desc_index,
                         descriptors>>]_vars

\* a reload was rejected as busy, on a slot that the engine has completed
\* and the sweep has not yet reclaimed
C3_Witness ==
  /\ last.op = "reload" /\ last.ret = -EBUSY
  /\ owner[last.channel][NextSlot(last.channel)] = "done"

\* C4: on a freshly configured channel without completions, a reload of a
\* valid block succeeds while fewer than num_descriptors blocks were
\* submitted (configure's blocks counted) and returns -EBUSY once that many
\* were; after the engine completed a descriptor of the full ring and the
\* sweep reclaimed it, the next reload of a valid block succeeds.
C4_FullRing ==
  [][\A ch \in Channels :
       /\ ring'[ch] = "fresh" => nsub'[ch] <= num_descriptors(ch)
       /\ \A size \in ReloadSizes :
            ReloadStep(ch, size)
            => /\ (ring[ch] = "fresh" /\ nsub[ch] = num_descriptors(ch))
                  => last'.ret = -EBUSY /\ nsub'[ch] = nsub[ch]
               /\ (ring[ch] = "fresh" /\ nsub[ch] < num_descriptors(ch)
                   /\ size.hi = 0)
                  => last'.ret = 0 /\ nsub'[ch] = nsub[ch] + 1
               /\ (ring[ch] = "reclaimed" /\ size.hi = 0)
                  => last'.ret = 0 /\ nsub'[ch] = nsub[ch] + 1]_vars

\* the ring was filled, one descriptor completed and was reclaimed, and the
\* next reload succeeded
C4_Witness ==
  \E ch \in Channels :
    /\ ring[ch] = "refilled"
    /\ last.op = "reload" /\ last.channel = ch /\ last.ret = 0
    /\ nsub[ch] = num_descriptors(ch) + 1

\* C5: on one channel the completion callbacks are made in the order of
\* submission: the serial numbers in the callback log of a channel increase.
C5_InOrderDelivery ==
  \A j, k \in 1..Len(cb_log) :
    (j < k /\ cb_log[j].of = cb_log[k].of) => cb_log[j].id < cb_log[k].id

\* C6: the channel number handed to the completion callback is the number of
\* the channel whose descriptor completed.
C6_CallbackChannelNumber ==
  \A k \in 1..Len(cb_log) : cb_log[k].channel = cb_log[k].of

\* C7: a submit of a block longer than 2^26 - 1 bytes fails with -EINVAL, and
\* the control word of an accepted reload block is its length in bits 25..0
\* with the start-of-frame and end-of-frame bits.
C7_LengthLimit ==
  [][\A ch \in Channels, size \in LengthSizes :
       ReloadStep(ch, size) /\ ~NonZero(descriptors[ch][NextSlot(ch)])
       => IF WordGt(size, CTRL_LENGTH_MASK)
          THEN last'.ret = -EINVAL
          ELSE /\ last'.ret = 0
               /\ descriptors'[ch][NextSlot(ch)].control =
                    WordOr(size, WordOr(CTRL_SOF_MASK, CTRL_EOF_MASK))]_vars

\* C8: a configure or a submit that is rejected for a configuration error
\* (-ENOTSUP or -EINVAL) leaves the cursors, the descriptors, the registers
\* and the channel's configuration as they were.
C8_RejectionChangesNothing ==
  [][\A ch \in Channels :
       (/\ ConfigureStep(ch) \/ \E size \in ReloadSizes : ReloadStep(ch, size)
        /\ last'.ret \in {-ENOTSUP, -EINVAL})
       => UNCHANGED <<chanVars, descriptors, regVars>>]_vars

\* C9: init reads the reset bit at most 1000 times; when every read saw it
\* set, init returns -EIO with no interrupt line connected or enabled and
\* run-stop clear on both channels, and stays so; when a read sees the bit
\* clear, init connects and enables both lines and returns 0.
C9_ResetTimeout ==
  [][/\ init_i' <= RESET_POLL_LIMIT
     /\ (init_pc = "poll" /\ init_pc' = "failed")
        => /\ init_i = RESET_POLL_LIMIT
           /\ last'.op = "init" /\ last'.ret = -EIO
     /\ init_pc = "failed" => init_pc' = "failed"
     /\ init_pc' = "failed"
        => \A ch \in Channels :
             /\ ~irq_connected'[ch] /\ ~irq_enabled'[ch]
             /\ BitAnd(dmacr'[ch], DMACR_RS) = 0
     /\ (InitPoll /\ init_i < RESET_POLL_LIMIT
         /\ BitAnd(dmacr[XILINX_AXI_DMA_RX_CHANNEL_NUM], DMACR_RESET) = 0)
        => /\ init_pc' = "ready"
           /\ last'.op = "init" /\ last'.ret = 0
           /\ \A ch \in Channels : irq_connected'[ch] /\ irq_enabled'[ch]]_vars

\* init has given up on the reset and returned -EIO
C9_Witness ==
  init_pc = "failed" /\ last.op = "init" /\ last.ret = -EIO

\* C10: get_status reports the fixed direction of the channel: memory to
\* peripheral for TX, peripheral to memory for RX.
C10_StatusDirection ==
  last.op = "get_status" => last.dir = ChannelDirection(last.channel)

\* a status word with the decode, slave or internal error flag set
AnyErrorFlag(status) == (status.hi \div 4) % 8 # 0

\* C11: for every status the sweep processes, the callback gets -EFAULT when
\* any of the decode, slave and internal error flags is set, whichever and
\* however many they are, and with checksum inspection off it gets
\* DMA_STATUS_COMPLETE exactly when none of them is set.
C11_ErrorFlagIndependence ==
  [][\A ch \in Channels :
       (IsrSweepIteration(ch) /\ completion_callback[ch] # NULL)
       => /\ AnyErrorFlag(isr_status[ch]) => cb_status' = -EFAULT
          /\ ~check_csum_in_isr[ch]
             => (cb_status' = DMA_STATUS_COMPLETE <=> ~AnyErrorFlag(isr_status[ch]))]_vars

\* the sweep has reported a failure and now stands on a completed descriptor
\* with the decode and the slave error flags set and the internal one clear
C11_Witness ==
  \E ch \in Channels :
    /\ isr_pc[ch] = "sweep"
    /\ Len(cb_log) = 1 /\ cb_status = -EFAULT
    /\ isr_status[ch].hi = STATUS_DEC_ERR_MASK.hi + STATUS_SLV_ERR_MASK.hi

\* bit n of the number a is set
BitSet(a, n) == (a \div (2 ^ n)) % 2 = 1

\* APP2 has the FCS bit, or all bits of the IP (0x28), UDP (0x30) or TCP
\* (0x38) pattern
App2Fails(a) ==
  \/ BitSet(a, 8)
  \/ BitSet(a, 3) /\ BitSet(a, 5)
  \/ BitSet(a, 4) /\ BitSet(a, 5)
  \/ BitSet(a, 3) /\ BitSet(a, 4) /\ BitSet(a, 5)

\* C12: with checksum inspection enabled, a transfer completed without error
\* flags is reported failed exactly when APP2 has the FCS bit or all bits of
\* the IP, UDP or TCP pattern; 0x38 fails, 0x30 fails through the UDP pattern
\* while the TCP pattern does not match; inspection is never enabled on TX.
C12_ChecksumMasking ==
  [][/\ \A ch \in Channels :
          (/\ IsrSweepIteration(ch)
           /\ completion_callback[ch] # NULL
           /\ check_csum_in_isr[ch]
           /\ ~AnyErrorFlag(isr_status[ch]))
          => (cb_status' = -EFAULT
              <=> App2Fails(descriptors[ch][completion_desc_index[ch]].app2))
     /\ SweepRetval(STATUS_COMPLETE_MASK, TRUE, 56) = -EFAULT
     /\ SweepRetval(STATUS_COMPLETE_MASK, TRUE, 48) = -EFAULT
     /\ BitAnd(48, APP2_UDP_ERR_MASK) = APP2_UDP_ERR_MASK
     /\ BitAnd(48, APP2_TCP_ERR_MASK) # APP2_TCP_ERR_MASK
     /\ ~check_csum_in_isr'[XILINX_AXI_DMA_TX_CHANNEL_NUM]]_vars

\* on the RX channel with inspection enabled, the first completed frame came
\* with APP2 = 0x30 and no error flag, and its callback got -EFAULT
C12_Witness ==
  /\ check_csum_in_isr[XILINX_AXI_DMA_RX_CHANNEL_NUM]
  /\ Len(cb_log) = 1 /\ cb_status = -EFAULT
  /\ completion_desc_index[XILINX_AXI_DMA_RX_CHANNEL_NUM] = 1
  /\ descriptors[XILINX_AXI_DMA_RX_CHANNEL_NUM][0].app2 = 48
  /\ last_rx_size[XILINX_AXI_DMA_RX_CHANNEL_NUM] = Word(0, 100)

\* C13: a descriptor completed with an error flag does not stop the sweep:
\* the sweep reports it failed, clears it, advances completion_desc_index and
\* goes on to the next slot; it returns only at a slot whose status has no
\* flag; and every callback gets the result of its own descriptor.
C13_PartialFailure ==
  [][\A ch \in Channels :
       LET i == completion_desc_index[ch]
           n == (i + 1) % num_descriptors(ch)
       IN  /\ (IsrSweepIteration(ch) /\ AnyErrorFlag(isr_status[ch]))
              => /\ completion_callback[ch] # NULL
                    => /\ cb_status' = -EFAULT
                       /\ Len(cb_log') = Len(cb_log) + 1
                 /\ ~NonZero(descriptors'[ch][i])
                 /\ completion_desc_index'[ch] = n
                 /\ isr_pc'[ch] = "sweep"
                 /\ isr_status'[ch] = descriptors[ch][n].status
           /\ (IsrSweepIteration(ch) /\ completion_callback[ch] # NULL)
              => (cb_status' = -EFAULT
                  <=> \/ AnyErrorFlag(isr_status[ch])
                      \/ check_csum_in_isr[ch] /\ App2Fails(descriptors[ch][i].app2))
           /\ (isr_pc[ch] = "sweep" /\ isr_pc'[ch] = "idle")
              => isr_status[ch].hi = 0]_vars

\* the sweep has reported the first descriptor failed and stands, in the same
\* run, on the second one, which the engine completed without error
C13_Witness ==
  \E ch \in Channels :
    /\ isr_pc[ch] = "sweep"
    /\ Len(cb_log) = 1 /\ cb_status = -EFAULT
    /\ completion_desc_index[ch] = 1
    /\ isr_status[ch] = Word(STATUS_COMPLETE_MASK.hi, 200)
    /\ descriptors[ch][0].app2 = 0

\* the bits lo..hi of a register value
Field(a, lo, n) == (a \div (2 ^ lo)) % (2 ^ n)

\* C14: start writes TAILDESC with the address of the slot at
\* populated_desc_index; on a channel whose DMASR reported halted it first
\* writes DMACR with run-stop set, reset, keyhole and cyclic clear, the three
\* interrupt enables set and the configured threshold and timeout, and that
\* write is made before the tail write; otherwise DMACR is not written.
\* start changes neither cursor nor any descriptor.
C14_StartProtocol ==
  [][\A ch \in Channels :
       dma_xilinx_axi_dma_start(ch)
       => LET halted == BitSet(dmasr[ch], 0)
              ws == StartWrites(ch, halted)
              tail == DESCRIPTORS_TX_ADDR + SG_DESCRIPTOR_SIZE *
                        (populated_desc_index[ch] + ch * SG_DESCRIPTOR_NUM_TX)
          IN  /\ ws[Len(ws)] = [reg |-> "TAILDESC", val |-> tail]
              /\ taildesc'[ch] = tail
              /\ halted
                 => /\ Len(ws) = 2
                    /\ ws[1].reg = "DMACR"
                    /\ dmacr'[ch] = ws[1].val
                    /\ BitSet(dmacr'[ch], 0)
                    /\ Field(dmacr'[ch], 1, 11) = 0
                    /\ Field(dmacr'[ch], 12, 4) = 7
                    /\ Field(dmacr'[ch], 16, 8) = INTERRUPT_THRESHOLD
                    /\ Field(dmacr'[ch], 24, 7) = INTERRUPT_TIMEOUT
              /\ ~halted => Len(ws) = 1 /\ dmacr'[ch] = dmacr[ch]
              /\ UNCHANGED <<populated_desc_index, completion_desc_index,
                             descriptors>>]_vars

\* start has armed a halted channel: the control register holds the armed
\* value and the tail pointer the address of the slot at the submit cursor
C14_Witness ==
  \E ch \in Channels :
    /\ last.op = "start" /\ last.channel = ch
    /\ BitSet(dmacr[ch], 0) /\ Field(dmacr[ch], 16, 8) = INTERRUPT_THRESHOLD
    /\ populated_desc_index[ch] = 1
    /\ taildesc[ch] = DescAddr(ch, 1)

\* C15: stop clears the run-stop bit of DMACR and no other bit, and leaves
\* both cursors, every descriptor and the tail pointer register unchanged.
C15_StopClearsRunStopOnly ==
  [][\A ch \in Channels :
       dma_xilinx_axi_dma_stop(ch)
       => /\ ~BitSet(dmacr'[ch], 0)
          /\ Field(dmacr'[ch], 1, 30) = Field(dmacr[ch], 1, 30)
          /\ \A c \in Channels \ {ch} : dmacr'[c] = dmacr[c]
          /\ UNCHANGED <<populated_desc_index, completion_desc_index,
                         descriptors, taildesc, curdesc, owner>>]_vars

\* stop has been called on an armed channel with a descriptor in flight
C15_Witness ==
  \E ch \in Channels :
    /\ last.op = "stop" /\ last.channel = ch
    /\ ~BitSet(dmacr[ch], 0)
    /\ Field(dmacr[ch], 12, 4) = 7
    /\ Field(dmacr[ch], 16, 8) = INTERRUPT_THRESHOLD
    /\ \E i \in Slots(ch) : owner[ch][i] = "hw" /\ NonZero(descriptors[ch][i])

\* the buffer address configure passes to submit for a block
BlockAddress(ch, b) ==
  IF ch = XILINX_AXI_DMA_TX_CHANNEL_NUM THEN b.source_address ELSE b.dest_address

\* the first f blocks of the chain stand in slots 0 .. f-1 of the ring of
\* ch, in chain order, start-of-frame on the first block of the chain only
\* and end-of-frame on the last only, and no slot after them is written
ChainWritten(ch, chain, f) ==
  /\ \A k \in 1..f :
       LET d == descriptors'[ch][k - 1]
       IN  /\ d.control.lo = chain[k].block_size.lo
           /\ BitSet(d.control.hi, 1) <=> k = 1
           /\ BitSet(d.control.hi, 0) <=> k = Len(chain)
           /\ d.buffer_address = BlockAddress(ch, chain[k])
  /\ \A i \in Slots(ch) :
       i >= f => /\ descriptors'[ch][i].control = descriptors[ch][i].control
                 /\ descriptors'[ch][i].status = descriptors[ch][i].status
  /\ \A i \in Slots(ch) :
       i > f => /\ descriptors'[ch][i].buffer_address = descriptors[ch][i].buffer_address
                /\ descriptors'[ch][i].app0 = descriptors[ch][i].app0
  /\ populated_desc_index'[ch] = (f + num_descriptors(ch) - 1) % num_descriptors(ch)

\* C16: a configure that passes its checks submits the blocks in chain
\* order, one descriptor per block in consecutive slots from slot 0, with
\* start-of-frame on the first block's descriptor only and end-of-frame on
\* the last block's only; it stops at the first block whose submit fails and
\* writes no block after it.
C16_ChainOrder ==
  [][\A ch \in Channels : \A dma_cfg \in ChainConfigs(ch) :
       (/\ dma_xilinx_axi_dma_configure(ch, dma_cfg)
        /\ FullyDrained(ch)
        /\ last'.ret # -ENOTSUP)
       => \E f \in 0..Len(dma_cfg.head_block) :
            /\ f <= num_descriptors(ch)
            /\ ChainWritten(ch, dma_cfg.head_block, f)
            /\ f = Len(dma_cfg.head_block) <=> last'.ret = 0]_vars

\* C17: when a block of the chain is refused by submit, configure returns
\* the error of that submit: -EBUSY when the slot of the block was in use,
\* -EINVAL when the block was invalid.
C17_ChainErrorCode ==
  [][\A ch \in Channels : \A dma_cfg \in ChainConfigs(ch) :
       (/\ dma_xilinx_axi_dma_configure(ch, dma_cfg)
        /\ FullyDrained(ch)
        /\ nsub'[ch] - nsub[ch] < Len(dma_cfg.head_block)
        /\ last'.ret # -ENOTSUP)
       => LET slot == (nsub'[ch] - nsub[ch]) % num_descriptors(ch)
          IN  last'.ret = IF NonZero(descriptors'[ch][slot]) THEN -EBUSY ELSE -EINVAL]_vars

\* a block with a decrementing source or destination address
Decrements(b) ==
  b.source_addr_adj = DMA_ADDR_ADJ_DECREMENT \/ b.dest_addr_adj = DMA_ADDR_ADJ_DECREMENT

\* C18: configure refuses with -ENOTSUP a chain in which any block, the head
\* or a later one, has a decrementing source or destination address, and
\* submits none of its blocks.
C18_DecrementRejected ==
  [][\A ch \in Channels : \A dma_cfg \in ChainConfigs(ch) :
       (/\ dma_xilinx_axi_dma_configure(ch, dma_cfg)
        /\ \E k \in 1..Len(dma_cfg.head_block) : Decrements(dma_cfg.head_block[k]))
       => /\ last'.ret = -ENOTSUP
          /\ UNCHANGED <<populated_desc_index, descriptors>>]_vars

\* a step of the driver on channel ch: configure, submit, start, stop or a
\* step of the interrupt handler with its completion sweep
DriverStepOn(ch) ==
  \/ \E dma_cfg \in BothConfigs(ch) : dma_xilinx_axi_dma_configure(ch, dma_cfg)
  \/ \E size \in BothSizes : ReloadStep(ch, size)
  \/ dma_xilinx_axi_dma_start(ch)
  \/ dma_xilinx_axi_dma_stop(ch)
  \/ IsrEnter(ch)
  \/ IsrSweepIteration(ch)
  \/ IsrExit(ch)

\* the state of channel ch stays as it is: cursors, descriptors, registers,
\* callback, configuration and last received length
ChannelUnchanged(ch) ==
  /\ populated_desc_index'[ch] = populated_desc_index[ch]
  /\ completion_desc_index'[ch] = completion_desc_index[ch]
  /\ descriptors'[ch] = descriptors[ch]
  /\ dmacr'[ch] = dmacr[ch]
  /\ dmasr'[ch] = dmasr[ch]
  /\ curdesc'[ch] = curdesc[ch]
  /\ taildesc'[ch] = taildesc[ch]
  /\ completion_callback'[ch] = completion_callback[ch]
  /\ sg_desc_app0'[ch] = sg_desc_app0[ch]
  /\ check_csum_in_isr'[ch] = check_csum_in_isr[ch]
  /\ direction'[ch] = direction[ch]
  /\ last_rx_size'[ch] = last_rx_size[ch]

\* C19: configure, submit, start, stop and the completion sweep on one
\* channel leave the other channel's cursors, descriptors, registers,
\* callback and last received length unchanged; a completion on the send
\* channel never changes the length dma_xilinx_axi_dma_last_received_frame_length
\* returns.
C19_ChannelIndependence ==
  [][/\ \A ch \in Channels : DriverStepOn(ch) => ChannelUnchanged(1 - ch)
     /\ (\/ HwComplete(XILINX_AXI_DMA_TX_CHANNEL_NUM, STATUS_COMPLETE_MASK.hi, 0)
         \/ IsrSweepIteration(XILINX_AXI_DMA_TX_CHANNEL_NUM))
        => last_rx_size'[XILINX_AXI_DMA_RX_CHANNEL_NUM]
             = last_rx_size[XILINX_AXI_DMA_RX_CHANNEL_NUM]]_vars

\* frames of 200 and 300 bytes have been received, and after them the sweep
\* of the send channel has delivered the completion of a block of 100 bytes
C19_Witness ==
  /\ Len(cb_log) >= 2
  /\ cb_log[Len(cb_log)].of = XILINX_AXI_DMA_TX_CHANNEL_NUM
  /\ cb_log[Len(cb_log) - 1].of = XILINX_AXI_DMA_RX_CHANNEL_NUM
  /\ last_rx_size[XILINX_AXI_DMA_TX_CHANNEL_NUM] = Word(0, 100)
  /\ last_rx_size[XILINX_AXI_DMA_RX_CHANNEL_NUM] = Word(0, 300)

\* the thread is between lock_irq and unlock_irq of a submit or start on ch
InCritical(ch) == thread.pc # "idle" /\ thread.channel = ch

\* C20: in each of the three exclusion modes, the interrupt handler of a
\* channel and its completion sweep never run between the lock_irq and the
\* unlock_irq of a submit or start on that channel, so the sweep never sees
\* a descriptor whose address is written and whose control word is not, or
\* a control word written without populated_desc_index.
C20_MutualExclusion ==
  [][\A ch \in Channels :
       /\ (IsrEnter(ch) \/ IsrSweepIteration(ch) \/ IsrExit(ch))
          => /\ ~InCritical(ch)
             /\ lock_mode = "LOCK_ALL_IRQS" => thread = NotInCall
             /\ lock_mode = "LOCK_DMA_IRQS" => thread = NotInCall
       /\ (thread'.pc # "idle" /\ thread'.channel = ch) => isr_pc'[ch] = "idle"]_vars

\* a submit under the CPU's interrupt lock stands between the store of the
\* address and the store of the control word while the channel's line, still
\* enabled, is raised by a completion
C20_Witness ==
  /\ lock_mode = "LOCK_ALL_IRQS"
  /\ irq_locked
  /\ thread.fn = "transfer_block" /\ thread.pc = "control"
  /\ irq_connected[thread.channel] /\ irq_enabled[thread.channel]
  /\ BitSet(dmasr[thread.channel], 12) /\ BitSet(dmacr[thread.channel], 12)

\* a call the completion callback of channel ch makes on some channel
CallFromCallback(ch) ==
  \/ \E target \in Channels, size \in BothSizes : CallbackReload(ch, target, size)
  \/ \E target \in Channels : CallbackStart(ch, target)

CompleteUnreclaimed(ch, i) == BitSet(descriptors[ch][i].status.hi, 5)

\* C22: the handler clears the completion and delay cause bits when it
\* enters, before the first descriptor is drained, so a completion that the
\* engine signals during the sweep raises the line again; under fair
\* interrupt delivery every descriptor the engine marks complete is
\* eventually reclaimed: its callback is made and its slot cleared.
C22_NoLostCompletion ==
  /\ [][\A ch \in Channels :
          (IsrEnter(ch) /\ isr_pc'[ch] = "sweep")
          => /\ ~BitSet(dmasr'[ch], 12) /\ ~BitSet(dmasr'[ch], 13)
             /\ descriptors' = descriptors
             /\ completion_desc_index' = completion_desc_index]_vars
  /\ [][\A ch \in Channels : \A i \in Slots(ch) :
          (CompleteUnreclaimed(ch, i) /\ ~NonZero(descriptors'[ch][i]))
          => /\ IsrSweepIteration(ch)
             /\ Len(cb_log') = Len(cb_log) + 1]_vars
  /\ []<>(\A ch \in Channels : \A i \in Slots(ch) : ~CompleteUnreclaimed(ch, i))

\* the engine has completed a descriptor while the sweep of the channel was
\* running past it: the sweep stands on an empty slot, the completed slot
\* is behind the submit cursor, and the cause bit is set again
C22_Witness ==
  \E ch \in Channels :
    /\ isr_pc[ch] = "sweep"
    /\ ~StatusNeedsCleanup(isr_status[ch])
    /\ CompleteUnreclaimed(ch, completion_desc_index[ch])
    /\ BitSet(dmasr[ch], 12)

\* slot i of ch holds a status with an error flag
ErrorUnreclaimed(ch, i) == AnyErrorFlag(descriptors[ch][i].status)

\* C23: a handler that finds the error cause bit set in DMASR clears it and
\* does not write DMACR, so the channel keeps running; the descriptor that
\* carries an error flag is reclaimed by the sweep only, with a callback
\* whose result is -EFAULT, and under fair interrupt delivery it is
\* reclaimed eventually.
C23_ErrorCauseServiced ==
  /\ [][\A ch \in Channels :
          (IsrEnter(ch) /\ BitSet(dmasr[ch], 14))
          => /\ ~BitSet(dmasr'[ch], 14)
             /\ dmacr' = dmacr
             /\ descriptors' = descriptors]_vars
  /\ [][\A ch \in Channels : \A i \in Slots(ch) :
          (ErrorUnreclaimed(ch, i) /\ ~NonZero(descriptors'[ch][i]))
          => /\ IsrSweepIteration(ch)
             /\ Len(cb_log') = Len(cb_log) + 1
             /\ cb_status' = -EFAULT]_vars
  /\ []<>(\A ch \in Channels : \A i \in Slots(ch) : ~ErrorUnreclaimed(ch, i))

\* a handler has served an interrupt raised by the error cause alone: it
\* has returned, the error cause bit is clear, no other cause is set, the
\* channel runs, and the descriptor with the error flag waits in its slot
C23_Witness ==
  \E ch \in Channels :
    /\ \A c \in Channels : isr_pc[c] = "idle"
    /\ ErrorUnreclaimed(ch, completion_desc_index[ch])
    /\ ~BitSet(dmasr[ch], 14) /\ ~BitSet(dmasr[ch], 13) /\ ~BitSet(dmasr[ch], 12)
    /\ BitSet(dmacr[ch], 0) /\ BitSet(dmacr[ch], 14)
    /\ irq_enabled[ch]

\* a step of the completion sweep of some channel
SweepStep == \E ch \in Channels : IsrSweepIteration(ch)

\* C24: of all driver operations the completion sweep is the only one that
\* changes completion_desc_index, and the only one that sets a descriptor's
\* control or status word to zero.
C24_SingleWriter ==
  [][/\ completion_desc_index' # completion_desc_index => SweepStep
     /\ \A ch \in Channels : \A i \in Slots(ch) :
          (\/ descriptors[ch][i].control # WordZero
              /\ descriptors'[ch][i].control = WordZero
           \/ descriptors[ch][i].status # WordZero
              /\ descriptors'[ch][i].status = WordZero)
          => SweepStep]_vars

\* a configure step of channel ch with any of the configurations of ReconfConfigs
AnyReconfigureStep(ch) == \E dma_cfg \in ReconfConfigs(ch) : dma_xilinx_axi_dma_configure(ch, dma_cfg)

\* C24 (amended): completion_desc_index of a channel changes only in an
\* iteration of the channel's completion sweep, which advances it by one slot
\* modulo the ring's capacity, or in a configure of the channel, which sets it
\* to 0; and only the sweep turns a non-zero control or status word into zero.
C24_SweepOrConfigure ==
  [][\A ch \in Channels :
       /\ IsrSweepIteration(ch)
            => completion_desc_index'[ch]
                 = (completion_desc_index[ch] + 1) % num_descriptors(ch)
       /\ completion_desc_index'[ch] # completion_desc_index[ch]
            => \/ IsrSweepIteration(ch)
               \/ AnyReconfigureStep(ch) /\ completion_desc_index'[ch] = 0
       /\ \A i \in Slots(ch) :
            (\/ descriptors[ch][i].control # WordZero
                /\ descriptors'[ch][i].control = WordZero
             \/ descriptors[ch][i].status # WordZero
                /\ descriptors'[ch][i].status = WordZero)
            => IsrSweepIteration(ch) /\ i = completion_desc_index[ch]]_vars

\* the sweep has reclaimed one descriptor of a channel, and a later configure
\* of that channel has put the completion cursor back to slot 0
C24_Witness ==
  /\ last.op = "configure" /\ last.ret = 0
  /\ Len(cb_log) = 1 /\ cb_log[1].of = last.channel
  /\ completion_desc_index[last.channel] = 0
  /\ isr_pc[last.channel] = "idle"

\* a configure step of channel ch with one of the configurations of ReconfConfigs
ReconfigureStep(ch, dma_cfg) ==
  dma_cfg \in ReconfConfigs(ch) /\ dma_xilinx_axi_dma_configure(ch, dma_cfg)

\* the link of slot i of ch leads to the following slot, the last to slot 0
ClosedRing(ch, desc) ==
  \A i \in Slots(ch) :
    desc[i].nxtdesc = DESCRIPTORS_TX_ADDR + SG_DESCRIPTOR_SIZE *
                        (((i + 1) % num_descriptors(ch)) + ch * SG_DESCRIPTOR_NUM_TX)

\* C26: a successful configure, first or repeated, resets the ring before it
\* submits its first block: the links form the closed ring, the cursors
\* start from capacity - 1 and 0, so the blocks of the chain stand in slots
\* 0, 1, ... and populated_desc_index on the last of them, and every other
\* slot has control = 0 and status = 0.
C26_RingResetOnConfigure ==
  [][\A ch \in Channels : \A dma_cfg \in ReconfConfigs(ch) :
       (ReconfigureStep(ch, dma_cfg) /\ last'.ret = 0)
       => /\ ClosedRing(ch, descriptors'[ch])
          /\ completion_desc_index'[ch] = 0
          /\ populated_desc_index'[ch] = Len(dma_cfg.head_block) - 1
          /\ \A i \in Slots(ch) :
               i >= Len(dma_cfg.head_block) => ~NonZero(descriptors'[ch][i])]_vars

\* C27: the driver writes CURDESC only while the channel is halted: every
\* configure that gets as far as the write of the register finds the halted
\* flag of DMASR set.
C27_CurdescOnlyWhileHalted ==
  [][\A ch \in Channels : \A dma_cfg \in ReconfConfigs(ch) :
       (ReconfigureStep(ch, dma_cfg) /\ last'.ret # -ENOTSUP)
       => BitSet(dmasr[ch], 0)]_vars

\* C25: in every reachable state a descriptor has control = 0 and status = 0
\* exactly if it is free, that is, never submitted since configure or already
\* reclaimed by the sweep; a descriptor written by a successful submit, of any
\* length and any first/last combination, differs from a free slot until the
\* sweep reclaims it.
C25_FreeSlotInvariant ==
  \A ch \in Channels : \A i \in Slots(ch) :
    ~NonZero(descriptors[ch][i]) <=> owner[ch][i] = "free"

\* C28: for every completed descriptor of the receive channel the sweep
\* invalidates the data buffer before it calls the completion callback for
\* that descriptor, and it never invalidates for a descriptor of the send
\* channel.
C28_InvalidateOnReceiveOnly ==
  \A k \in 1 .. Len(cb_log) :
    cb_log[k].invd <=> cb_log[k].of = XILINX_AXI_DMA_RX_CHANNEL_NUM

\* C29: after start(channel) has returned success the run/stop bit of the
\* channel's DMACR is set, whatever configure, submit, start and stop calls
\* came before and whenever the hardware raises the halted flag after a stop.
C29_RunningAfterStart ==
  [][\A ch \in Channels :
       (dma_xilinx_axi_dma_start(ch) /\ last'.ret = 0) => BitSet(dmacr'[ch], 0)]_vars

\* C30: every invocation of a channel's interrupt handler terminates and
\* enables the line again if it was enabled on entry; the drain loop of one
\* invocation performs at most as many iterations as the ring has slots, also
\* when every slot is complete at entry: it stops when it wraps to the slot
\* it cleared first.
C30_SweepTerminates ==
  /\ [][\A ch \in Channels :
          /\ processed_packets'[ch] <= num_descriptors(ch)
          /\ IsrSweepIteration(ch) => processed_packets'[ch] = processed_packets[ch] + 1
          /\ (IsrExit(ch) /\ isr_irq_enabled[ch]) => irq_enabled'[ch]]_vars
  /\ []<>(\A ch \in Channels : isr_pc[ch] = "idle")

\* the sweep of a channel has gone once round a ring that was complete in
\* every slot, stands on the slot it cleared first and finds the loop
\* condition false
C30_Witness ==
  \E ch \in Channels :
    /\ isr_pc[ch] = "sweep" /\ isr_irq_enabled[ch]
    /\ processed_packets[ch] = num_descriptors(ch)
    /\ ~StatusNeedsCleanup(isr_status[ch])
    /\ \A i \in Slots(ch) : ~NonZero(descriptors[ch][i])
====
